---- MODULE Spec2Model ----
(***************************************************************************)
(* Verification model of roulette-sentinel-core: the stake formula         *)
(* (adaptive_shield_engine.py), the risk monitor (risk_monitor.py) and the *)
(* simulation driver (simulator.py).                                       *)
(*                                                                         *)
(* Money is held in integer cents.  The source rounds floats with          *)
(* round(x, 2); away from an exact decimal tie the float error is far      *)
(* smaller than the distance to the rounding boundary, so the result is    *)
(* the nearest cent.  At an exact tie (x.xx5) the binary representation of *)
(* the float decides the direction, so the direction is an input `tie` of  *)
(* the operators that round, drawn from BOOLEAN by the actions.            *)
(***************************************************************************)
EXTENDS Integers, Sequences, FiniteSets, TLC

VARIABLES
    rm,               \* the RiskMonitor instance (its attributes)
    FIBONACCI_CACHE,  \* adaptive_shield_engine.FIBONACCI_CACHE
    sim,              \* the RouletteSimulator instance (its attributes)
    pc,               \* position of the program
    spin_count,       \* rounds of run_simulation's for loop entered so far
    num_spins,        \* run_simulation's argument
    wheel,            \* the values the outcome source of this run can produce
    terminal,         \* how run_simulation left its loop (the message it prints)
    env,              \* which bounded family of inputs this behaviour explores
    calls,            \* update_state calls since construction or reset_state
    zero_flags,       \* the zero flag of each of those calls, oldest first
    since_win,        \* calls since the most recent call with win_amount > 0
    last,             \* the most recent operation: its inputs and the state before it
    user_sessions,    \* bot.user_sessions: the session of each user that has one
    drivers,          \* the simulators of a process that runs several, each with its monitor
    alone             \* for each of those, the same run made alone in a process of its own

vars == <<rm, FIBONACCI_CACHE, sim, pc, spin_count, num_spins, wheel, terminal,
          env, calls, zero_flags, since_win, last, user_sessions, drivers, alone>>

\* Python's None for an optional argument; Some(v) is the argument given as v.
None == <<>>
Some(v) == <<v>>

----------------------------------------------------------------------------
(* risk_monitor.py: constants *)

MAX_CONSECUTIVE_LOSSES_LIMIT == 15
MAX_ZEROS_IN_50_SPINS_LIMIT == 4
\* DRAWDOWN_LIMIT_PERCENTAGE = 0.20, in percent
DRAWDOWN_LIMIT_PERCENTAGE == 20
\* ZERO_BUFFER_CONTRIBUTION_RATE = 0.05, in percent
ZERO_BUFFER_CONTRIBUTION_RATE == 5
\* ZERO_LOSS_COMPENSATION_RATE = 0.50, in percent
ZERO_LOSS_COMPENSATION_RATE == 50
MAX_HISTORY_FOR_ZERO_COUNT == 50

----------------------------------------------------------------------------
(* Python built-ins *)

\* round(n/d, 2) of an amount of n/d cents, n >= 0, d > 0: the nearest cent;
\* an exact tie goes up when `tie`, down otherwise.
Round2(n, d, tie) ==
    LET q == n \div d
        r == n % d
    IN  IF 2 * r < d THEN q
        ELSE IF 2 * r > d THEN q + 1
        ELSE IF tie THEN q + 1 ELSE q

Min(a, b) == IF a <= b THEN a ELSE b
Max(a, b) == IF a >= b THEN a ELSE b

RECURSIVE SeqSum(_)
SeqSum(s) == IF s = <<>> THEN 0 ELSE Head(s) + SeqSum(Tail(s))

----------------------------------------------------------------------------
(* risk_monitor.py: class RiskMonitor *)

NoStop == [loss_streak_limit |-> FALSE, zero_count_limit |-> FALSE,
           drawdown_limit |-> FALSE]

\* RiskMonitor.reset_state: every attribute back to its starting value.
reset_state(new_initial_bank, new_base_bet) ==
    [initial_bank |-> new_initial_bank,
     current_bank |-> new_initial_bank,
     base_bet |-> new_base_bet,
     current_streak |-> 0,
     z_count_last_50 |-> 0,
     zero_buffer |-> 0,
     spin_history_for_zero_count |-> <<>>,
     stop_conditions_met |-> NoStop]

\* RiskMonitor.__init__ sets initial_bank and base_bet and calls reset_state.
RiskMonitor(initial_bank, base_bet) == reset_state(initial_bank, base_bet)

\* RiskMonitor.update_z_count
update_z_count(m) ==
    [m EXCEPT !.z_count_last_50 = SeqSum(m.spin_history_for_zero_count)]

\* Mutant: the guard of the drawdown quotient tests the current bank.
DrawdownReached_GuardsCurrentBank(m) ==
    IF m.current_bank > 0
    THEN (m.initial_bank - m.current_bank) * 100
             >= DRAWDOWN_LIMIT_PERCENTAGE * m.initial_bank
    ELSE IF m.current_bank < 0 THEN TRUE
    ELSE FALSE

\* The drawdown predicate of check_stop_conditions.  (initial - current) /
\* initial >= 0.20 is compared on cents: (initial - current) * 100 >= 20 * initial.
DrawdownReached(m) ==
    IF m.initial_bank > 0
    THEN (m.initial_bank - m.current_bank) * 100
             >= DRAWDOWN_LIMIT_PERCENTAGE * m.initial_bank
    ELSE IF m.current_bank < 0 THEN TRUE
    ELSE FALSE

\* Mutant: a flag, once set, stays set.
check_stop_conditions_Latched(m) ==
    [m EXCEPT !.stop_conditions_met =
        [loss_streak_limit |-> \/ m.stop_conditions_met.loss_streak_limit
                               \/ m.current_streak >= MAX_CONSECUTIVE_LOSSES_LIMIT,
         zero_count_limit |-> \/ m.stop_conditions_met.zero_count_limit
                              \/ m.z_count_last_50 >= MAX_ZEROS_IN_50_SPINS_LIMIT,
         drawdown_limit |-> \/ m.stop_conditions_met.drawdown_limit
                            \/ DrawdownReached(m)]]

\* Mutant: the limits are compared with > for >=.
check_stop_conditions_StrictLimits(m) ==
    [m EXCEPT !.stop_conditions_met =
        [loss_streak_limit |-> m.current_streak > MAX_CONSECUTIVE_LOSSES_LIMIT,
         zero_count_limit |-> m.z_count_last_50 > MAX_ZEROS_IN_50_SPINS_LIMIT,
         drawdown_limit |-> DrawdownReached(m)]]

\* RiskMonitor.check_stop_conditions: every flag is assigned anew.
check_stop_conditions(m) ==
    [m EXCEPT !.stop_conditions_met =
        [loss_streak_limit |-> m.current_streak >= MAX_CONSECUTIVE_LOSSES_LIMIT,
         zero_count_limit |-> m.z_count_last_50 >= MAX_ZEROS_IN_50_SPINS_LIMIT,
         drawdown_limit |-> DrawdownReached(m)]]

\* Mutant: the drawdown flag is left out of the query.
is_stop_suggested_NoDrawdown(m) ==
    \/ m.stop_conditions_met.loss_streak_limit
    \/ m.stop_conditions_met.zero_count_limit

\* RiskMonitor.is_stop_suggested
is_stop_suggested(m) ==
    \/ m.stop_conditions_met.loss_streak_limit
    \/ m.stop_conditions_met.zero_count_limit
    \/ m.stop_conditions_met.drawdown_limit

\* Mutant: pop() for pop(0), the newest flag is dropped instead of the oldest.
PushZeroFlag_PopLast(m, is_zero_result) ==
    LET appended == Append(m.spin_history_for_zero_count,
                           IF is_zero_result THEN 1 ELSE 0)
        kept == IF Len(appended) > MAX_HISTORY_FOR_ZERO_COUNT
                THEN SubSeq(appended, 1, Len(appended) - 1) ELSE appended
    IN  update_z_count([m EXCEPT !.spin_history_for_zero_count = kept])

\* update_state, step 1: append the zero flag, evict the oldest beyond 50,
\* recompute the count.
PushZeroFlag(m, is_zero_result) ==
    LET appended == Append(m.spin_history_for_zero_count,
                           IF is_zero_result THEN 1 ELSE 0)
        kept == IF Len(appended) > MAX_HISTORY_FOR_ZERO_COUNT
                THEN Tail(appended) ELSE appended
    IN  update_z_count([m EXCEPT !.spin_history_for_zero_count = kept])

\* Mutant: a win does not reset the streak.
ApplyWin_KeepStreak(m, win_amount, tie) ==
    [m EXCEPT !.current_bank = m.current_bank + win_amount,
              !.zero_buffer = m.zero_buffer
                  + Round2(win_amount * ZERO_BUFFER_CONTRIBUTION_RATE, 100, tie)]

\* update_state, the winning branch (win_amount > 0).
\* contribution = win_amount * 0.05 is win_amount * 5 / 100 cents.
ApplyWin(m, win_amount, tie) ==
    [m EXCEPT !.current_bank = m.current_bank + win_amount,
              !.current_streak = 0,
              !.zero_buffer = m.zero_buffer
                  + Round2(win_amount * ZERO_BUFFER_CONTRIBUTION_RATE, 100, tie)]

\* Mutant: the compensation is not capped by the reserve.
Compensation_NoMin(m, bet_amount, tie) ==
    Round2(bet_amount * ZERO_LOSS_COMPENSATION_RATE, 100, tie)

\* The compensation of a zero-outcome loss:
\* round(min(bet_amount * 0.50, zero_buffer), 2), computed on hundredths of a cent.
Compensation(m, bet_amount, tie) ==
    Round2(Min(bet_amount * ZERO_LOSS_COMPENSATION_RATE, m.zero_buffer * 100),
           100, tie)

\* Mutant: the compensation leaves the reserve but is not credited to the bank.
ApplyLoss_NoRefund(m, bet_amount, is_zero_result, tie) ==
    LET actual_compensation ==
            IF is_zero_result THEN Compensation(m, bet_amount, tie) ELSE 0
    IN  [m EXCEPT !.current_bank = m.current_bank - bet_amount,
                  !.current_streak = m.current_streak + 1,
                  !.zero_buffer = m.zero_buffer - actual_compensation]

\* Mutant: every loss is compensated, zero outcome or not.
ApplyLoss_AlwaysCompensates(m, bet_amount, is_zero_result, tie) ==
    LET actual_compensation == Compensation(m, bet_amount, tie)
    IN  [m EXCEPT !.current_bank = m.current_bank - bet_amount + actual_compensation,
                  !.current_streak = m.current_streak + 1,
                  !.zero_buffer = m.zero_buffer - actual_compensation]

\* Mutant: a loss on a zero outcome does not extend the streak.
ApplyLoss_ZeroNotCounted(m, bet_amount, is_zero_result, tie) ==
    LET actual_compensation ==
            IF is_zero_result THEN Compensation(m, bet_amount, tie) ELSE 0
    IN  [m EXCEPT !.current_bank = m.current_bank - bet_amount + actual_compensation,
                  !.current_streak = IF is_zero_result THEN m.current_streak
                                     ELSE m.current_streak + 1,
                  !.zero_buffer = m.zero_buffer - actual_compensation]

\* update_state, the losing branch (win_amount == 0).
ApplyLoss(m, bet_amount, is_zero_result, tie) ==
    LET actual_compensation ==
            IF is_zero_result THEN Compensation(m, bet_amount, tie) ELSE 0
    IN  [m EXCEPT !.current_bank = m.current_bank - bet_amount + actual_compensation,
                  !.current_streak = m.current_streak + 1,
                  !.zero_buffer = m.zero_buffer - actual_compensation]

\* RiskMonitor.update_state.  spin_result is not read by the method.
\* round(current_bank, 2) leaves an amount of whole cents as it is.
update_state(m, bet_amount, win_amount, is_zero_result, current_bank_override, tie) ==
    LET m0 == IF current_bank_override # None
              THEN [m EXCEPT !.current_bank = current_bank_override[1]]
              ELSE m
        m1 == PushZeroFlag(m0, is_zero_result)
        m2 == IF win_amount > 0
              THEN ApplyWin(m1, win_amount, tie)
              ELSE ApplyLoss(m1, bet_amount, is_zero_result, tie)
    IN  check_stop_conditions(m2)

----------------------------------------------------------------------------
(* adaptive_shield_engine.py *)

\* Mutant: the base case of streak 2 returns 2 (the sequence 1, 1, 2, 3, 5, ...
\* shifted by one).
RECURSIVE get_fib_for_streak_TwoIsTwo(_, _)
get_fib_for_streak_TwoIsTwo(cache, streak) ==
    IF streak < 0
    THEN [value |-> 0, cache |-> cache, raised |-> TRUE]
    ELSE IF streak \in DOMAIN cache
    THEN [value |-> cache[streak], cache |-> cache, raised |-> FALSE]
    ELSE IF streak <= 1
    THEN [value |-> 1, cache |-> cache @@ (streak :> 1), raised |-> FALSE]
    ELSE IF streak = 2
    THEN [value |-> 2, cache |-> cache @@ (streak :> 2), raised |-> FALSE]
    ELSE LET r1 == get_fib_for_streak_TwoIsTwo(cache, streak - 1)
             r2 == get_fib_for_streak_TwoIsTwo(r1.cache, streak - 2)
             result == r1.value + r2.value
         IN  [value |-> result, cache |-> r2.cache @@ (streak :> result),
              raised |-> FALSE]

\* Mutant: the recursive case stores val_minus_1 in the cache and returns
\* the sum.
RECURSIVE get_fib_for_streak_StoresOperand(_, _)
get_fib_for_streak_StoresOperand(cache, streak) ==
    IF streak < 0
    THEN [value |-> 0, cache |-> cache, raised |-> TRUE]
    ELSE IF streak \in DOMAIN cache
    THEN [value |-> cache[streak], cache |-> cache, raised |-> FALSE]
    ELSE IF streak <= 2
    THEN [value |-> 1, cache |-> cache @@ (streak :> 1), raised |-> FALSE]
    ELSE LET r1 == get_fib_for_streak_StoresOperand(cache, streak - 1)
             r2 == get_fib_for_streak_StoresOperand(r1.cache, streak - 2)
             result == r1.value + r2.value
         IN  [value |-> result, cache |-> r2.cache @@ (streak :> r1.value),
              raised |-> FALSE]

\* get_fib_for_streak for an integer streak: the value returned,
\* FIBONACCI_CACHE as the call leaves it, and whether the call raised
\* ValueError (streak < 0) instead of returning.
RECURSIVE get_fib_for_streak(_, _)
get_fib_for_streak(cache, streak) ==
    IF streak < 0
    THEN [value |-> 0, cache |-> cache, raised |-> TRUE]
    ELSE IF streak \in DOMAIN cache
    THEN [value |-> cache[streak], cache |-> cache, raised |-> FALSE]
    ELSE IF streak <= 2
    THEN [value |-> 1, cache |-> cache @@ (streak :> 1), raised |-> FALSE]
    ELSE LET r1 == get_fib_for_streak(cache, streak - 1)
             r2 == get_fib_for_streak(r1.cache, streak - 2)
             result == r1.value + r2.value
         IN  [value |-> result, cache |-> r2.cache @@ (streak :> result),
              raised |-> FALSE]

\* Mutant: the guard on a negative streak is missing.
BetRejected_NoStreakGuard(base_bet, current_streak, z_count_last_50) ==
    \/ base_bet <= 0
    \/ ~(0 <= z_count_last_50 /\ z_count_last_50 <= 50)

\* The guards of calculate_bet that return 0.0 before the cache is touched.
BetRejected(base_bet, current_streak, z_count_last_50) ==
    \/ base_bet <= 0
    \/ current_streak < 0
    \/ ~(0 <= z_count_last_50 /\ z_count_last_50 <= 50)

\* Mutant: the Fibonacci factor is left out of the product.
BetNumerator_NoFib(base_bet, fib_k, z_count_last_50) ==
    base_bet * (50 - z_count_last_50) * 15

\* Mutant: the product is not divided by the risk index.
BetDenominator_NoRisk(streak) == 50 * 15

\* (base_bet * fib_k * buffer_factor) / risk_index with
\* buffer_factor = 1 - z/50 = (50 - z)/50 and risk_index = 1 + k/15 = (15 + k)/15,
\* as the fraction  base_bet * fib_k * (50 - z) * 15 / (50 * (15 + k))  of cents.
BetNumerator(base_bet, fib_k, z_count_last_50) ==
    base_bet * fib_k * (50 - z_count_last_50) * 15

BetDenominator(streak) == 50 * (15 + streak)

\* Mutant: the stake is cut to whole cents instead of rounded.
calculate_bet_Truncates(cache, base_bet, current_streak, z_count_last_50, tie) ==
    IF BetRejected(base_bet, current_streak, z_count_last_50) THEN 0
    ELSE IF 50 - z_count_last_50 <= 0 THEN 0
    ELSE IF 15 + current_streak <= 0 THEN 0
    ELSE BetNumerator(base_bet,
                      get_fib_for_streak(cache, current_streak).value,
                      z_count_last_50)
             \div BetDenominator(current_streak)

\* Mutant: a buffer factor of zero falls back to the base stake.
calculate_bet_ZeroFactorBase(cache, base_bet, current_streak, z_count_last_50, tie) ==
    IF BetRejected(base_bet, current_streak, z_count_last_50) THEN 0
    ELSE IF 50 - z_count_last_50 <= 0 THEN base_bet
    ELSE IF 15 + current_streak <= 0 THEN 0
    ELSE Round2(BetNumerator(base_bet,
                             get_fib_for_streak(cache, current_streak).value,
                             z_count_last_50),
                BetDenominator(current_streak), tie)

\* calculate_bet: the stake in cents.  buffer_factor <= 0 iff z >= 50;
\* risk_index <= 0 iff 15 + streak <= 0.
calculate_bet(cache, base_bet, current_streak, z_count_last_50, tie) ==
    IF BetRejected(base_bet, current_streak, z_count_last_50) THEN 0
    ELSE IF 50 - z_count_last_50 <= 0 THEN 0
    ELSE IF 15 + current_streak <= 0 THEN 0
    ELSE Round2(BetNumerator(base_bet,
                             get_fib_for_streak(cache, current_streak).value,
                             z_count_last_50),
                BetDenominator(current_streak), tie)

\* calculate_bet raises when its call of get_fib_for_streak (line 67) raises:
\* the exception is not caught.
BetRaises(cache, base_bet, current_streak, z_count_last_50) ==
    /\ ~BetRejected(base_bet, current_streak, z_count_last_50)
    /\ get_fib_for_streak(cache, current_streak).raised

\* FIBONACCI_CACHE after calculate_bet: get_fib_for_streak runs only when no
\* guard returned first.
CacheAfterBet(cache, base_bet, current_streak, z_count_last_50) ==
    IF BetRejected(base_bet, current_streak, z_count_last_50) THEN cache
    ELSE get_fib_for_streak(cache, current_streak).cache

----------------------------------------------------------------------------
(* live_analytics.py *)

RED_NUMBERS == {1, 3, 5, 7, 9, 12, 14, 16, 18, 19, 21, 23, 25, 27, 30, 32, 34, 36}
ZERO_NUMBER == 0

\* get_number_properties: the two properties the simulator reads.
get_number_properties(number) ==
    [is_zero |-> number = ZERO_NUMBER,
     color |-> IF number = ZERO_NUMBER THEN "None"
               ELSE IF number \in RED_NUMBERS THEN "red" ELSE "black"]

BLACK_NUMBERS == {2, 4, 6, 8, 10, 11, 13, 15, 17, 20, 22, 24, 26, 28, 29, 31, 33, 35}
ALL_NUMBERS == 0..36

\* get_number_properties raises ValueError for a number that is not on the wheel.
NumberRaises(number) == number \notin ALL_NUMBERS

\* The event checkers of the module's tests: is_red and is_zero.
EventHolds(event, props) ==
    IF event = "is_red" THEN props.color = "red" ELSE props.is_zero

\* Mutant: the history is scanned from its first spin.
RECURSIVE ScanForward(_, _, _, _)
ScanForward(history, event, i, streak) ==
    IF i > Len(history) THEN [value |-> streak, raised |-> FALSE]
    ELSE IF NumberRaises(history[i]) THEN [value |-> streak, raised |-> TRUE]
    ELSE IF EventHolds(event, get_number_properties(history[i]))
    THEN [value |-> streak, raised |-> FALSE]
    ELSE ScanForward(history, event, i + 1, streak + 1)

calculate_non_event_streak_Forward(history, event) ==
    ScanForward(history, event, 1, 0)

\* The loop "for spin_number in reversed(history)" from position i down, with
\* the streak counted so far.
RECURSIVE ScanReversed(_, _, _, _)
ScanReversed(history, event, i, streak) ==
    IF i = 0 THEN [value |-> streak, raised |-> FALSE]
    ELSE IF NumberRaises(history[i]) THEN [value |-> streak, raised |-> TRUE]
    ELSE IF EventHolds(event, get_number_properties(history[i]))
    THEN [value |-> streak, raised |-> FALSE]
    ELSE ScanReversed(history, event, i - 1, streak + 1)

\* calculate_non_event_streak: the value returned, and whether the call
\* raised ValueError instead of returning.
calculate_non_event_streak(history, event) ==
    ScanReversed(history, event, Len(history), 0)

----------------------------------------------------------------------------
(* simulator.py: class RouletteSimulator *)

\* RouletteSimulator.__init__
RouletteSimulator(initial_bank, base_bet) ==
    [initial_bank |-> initial_bank,
     base_bet |-> base_bet,
     current_bank |-> initial_bank,
     spin_history |-> <<>>,
     bet_history |-> <<>>,
     session_stats |->
        [total_spins |-> 0, wins |-> 0, losses |-> 0, zeros_hit |-> 0,
         max_streak_loss |-> 0, max_drawdown |-> 0, current_drawdown |-> 0,
         bank_history |-> <<initial_bank>>,
         stop_triggers |-> [loss_streak_limit |-> 0, zero_count_limit |-> 0,
                            drawdown_limit |-> 0],
         final_bank |-> initial_bank, profit_loss |-> 0, roi |-> <<0, 1>>,
         zero_buffer_accumulated |-> 0, zero_buffer_spent |-> 0]]

\* Mutant: every number but zero wins.
place_bet_and_determine_outcome_AnyColour(bet_amount, spin_result) ==
    IF bet_amount <= 0 THEN <<0, FALSE>>
    ELSE LET props == get_number_properties(spin_result)
         IN  IF ~props.is_zero
             THEN <<bet_amount, props.is_zero>>
             ELSE <<0, props.is_zero>>

\* _place_bet_and_determine_outcome: <<win_amount, is_zero_result>>.
place_bet_and_determine_outcome(bet_amount, spin_result) ==
    IF bet_amount <= 0 THEN <<0, FALSE>>
    ELSE LET props == get_number_properties(spin_result)
         IN  IF ~props.is_zero /\ props.color = "red"
             THEN <<bet_amount, props.is_zero>>
             ELSE <<0, props.is_zero>>

\* Mutant: the stake is not capped by the bank.
ClampStake_NoClamp(bet_amount, current_bank) == bet_amount

\* Mutant: max for min.
ClampStake_Max(bet_amount, current_bank) == Max(bet_amount, current_bank)

\* run_simulation, step 2: the stake of the round.  round(bet, 2) leaves the
\* whole cents calculate_bet returned; the stake is then capped by the bank.
ClampStake(bet_amount, current_bank) == Min(bet_amount, current_bank)

\* Mutant: every stop_triggers counter is incremented, whatever the flags.
CountTriggers_EveryKey(stats, m) ==
    [stats EXCEPT !.stop_triggers =
        [k \in DOMAIN stats.stop_triggers |-> stats.stop_triggers[k] + 1]]

\* The loop's "for k, v in stop_conditions_met.items(): if v: stop_triggers[k] += 1".
CountTriggers(stats, m) ==
    [stats EXCEPT !.stop_triggers =
        [k \in DOMAIN stats.stop_triggers |->
            IF m.stop_conditions_met[k] THEN stats.stop_triggers[k] + 1
            ELSE stats.stop_triggers[k]]]

\* 1 + streak/15 and 1 - z/50 as stored in a round record, in 1/10000.
RiskIndex(streak) == Round2((15 + streak) * 10000, 15, FALSE)
BufferFactor(z_count) == (50 - z_count) * 200

\* Mutant: the record of a zero-stake round carries the index of the first round.
ZeroStakeRecord_FirstIndex(s, m_after, spin, result) ==
    [spin |-> 1, result |-> result, bet_amount |-> 0,
     win_amount_from_bet |-> 0,
     bank_before_bet |-> s.current_bank,
     bank_after_spin |-> s.current_bank,
     streak_before_bet |-> m_after.current_streak,
     z_count_before_bet |-> m_after.z_count_last_50,
     risk_index |-> RiskIndex(m_after.current_streak),
     buffer_factor |-> BufferFactor(m_after.z_count_last_50)]

\* The record of a round in which no stake was placed: the streak and the
\* zero count are read from the monitor after its update_state.
ZeroStakeRecord(s, m_after, spin, result) ==
    [spin |-> spin, result |-> result, bet_amount |-> 0,
     win_amount_from_bet |-> 0,
     bank_before_bet |-> s.current_bank,
     bank_after_spin |-> s.current_bank,
     streak_before_bet |-> m_after.current_streak,
     z_count_before_bet |-> m_after.z_count_last_50,
     risk_index |-> RiskIndex(m_after.current_streak),
     buffer_factor |-> BufferFactor(m_after.z_count_last_50)]

\* Step 6: the streak "before this spin", derived from the monitor after the update.
StreakBeforeThisSpin(m_after, win_amount, is_zero_result) ==
    Max(0, IF win_amount = 0 /\ ~is_zero_result
           THEN m_after.current_streak - 1 ELSE m_after.current_streak)

\* Step 6: the zero count "before this spin", derived the same way.
ZCountBeforeThisSpin(m_after, is_zero_result) ==
    Max(0, IF is_zero_result
           THEN m_after.z_count_last_50 - 1 ELSE m_after.z_count_last_50)

\* Mutant: the record stores the bank after the spin as the bank before the bet.
StakedRecord_BankAfterAsBefore(m_after, spin, result, bet_amount, win_amount, is_zero_result, bank_before, bank_after) ==
    LET sb == StreakBeforeThisSpin(m_after, win_amount, is_zero_result)
        zb == ZCountBeforeThisSpin(m_after, is_zero_result)
    IN  [spin |-> spin, result |-> result, bet_amount |-> bet_amount,
         win_amount_from_bet |-> win_amount,
         bank_before_bet |-> bank_after,
         bank_after_spin |-> bank_after,
         streak_before_bet |-> sb,
         z_count_before_bet |-> zb,
         risk_index |-> RiskIndex(sb),
         buffer_factor |-> BufferFactor(zb)]

\* The record of a staked round.
StakedRecord(m_after, spin, result, bet_amount, win_amount, is_zero_result, bank_before, bank_after) ==
    LET sb == StreakBeforeThisSpin(m_after, win_amount, is_zero_result)
        zb == ZCountBeforeThisSpin(m_after, is_zero_result)
    IN  [spin |-> spin, result |-> result, bet_amount |-> bet_amount,
         win_amount_from_bet |-> win_amount,
         bank_before_bet |-> bank_before,
         bank_after_spin |-> bank_after,
         streak_before_bet |-> sb,
         z_count_before_bet |-> zb,
         risk_index |-> RiskIndex(sb),
         buffer_factor |-> BufferFactor(zb)]

\* Mutant: a decrease of the reserve is not counted.
CountBuffer_NoSpent(stats, before, after) ==
    IF after > before
    THEN [stats EXCEPT !.zero_buffer_accumulated = @ + (after - before)]
    ELSE stats

\* Step 5: the reserve's change of the round, counted as accumulated or spent.
CountBuffer(stats, before, after) ==
    IF after > before
    THEN [stats EXCEPT !.zero_buffer_accumulated = @ + (after - before)]
    ELSE IF after < before
    THEN [stats EXCEPT !.zero_buffer_spent = @ + (before - after)]
    ELSE stats

\* Step 6: the counters and extrema of a staked round.
CountRound(stats, s_initial_bank, bank_after, m_after, win_amount, is_zero_result) ==
    LET dd == s_initial_bank - bank_after
    IN  [stats EXCEPT
            !.bank_history = Append(@, bank_after),
            !.wins = IF win_amount > 0 THEN @ + 1 ELSE @,
            !.losses = IF win_amount > 0 THEN @ ELSE @ + 1,
            !.zeros_hit = IF is_zero_result THEN @ + 1 ELSE @,
            !.max_streak_loss = Max(@, m_after.current_streak),
            !.max_drawdown = IF dd > 0 THEN Max(@, dd) ELSE @,
            !.current_drawdown = dd]

\* After the loop: final_bank, profit_loss and roi (profit/initial * 100, as a
\* fraction <<numerator, denominator>>; 0 when the initial bank is not positive).
Summarize(s) ==
    [s EXCEPT !.session_stats =
        [@ EXCEPT !.final_bank = s.current_bank,
                  !.profit_loss = s.current_bank - s.initial_bank,
                  !.roi = IF s.initial_bank > 0
                          THEN <<(s.current_bank - s.initial_bank) * 100,
                                 s.initial_bank>>
                          ELSE <<0, 1>>]]

----------------------------------------------------------------------------
(* Bounds of the explored runs *)

\* Round budget of the runs whose wheel can produce zero, red and black.
MaxSpins == 6
\* Round budget of the runs whose wheel produces only zero and black.
LongSpins == 17

\* A wheel is the set of values the outcome source of a run can produce:
\* 0 is zero, 1 is red, 2 is black.
FullWheel == {0, 1, 2}
LosingWheel == {0, 2}

\* The configurations of a run: the simulator's initial bank and base bet, the
\* initial bank of the RiskMonitor handed to it (constructed or reset with the
\* same base bet), the round budget and the wheel.  Amounts are cents.
Config(bank, bet, rm_bank, n, w) ==
    [initial_bank |-> bank, base_bet |-> bet, rm_bank |-> rm_bank,
     num_spins |-> n, wheel |-> w]

SimConfigs ==
    {Config(100000, 1000, 100000, n, FullWheel) : n \in {0, 2, MaxSpins}}
    \cup {Config(3000000, 1000, 3000000, LongSpins, LosingWheel)}
    \cup {Config(1000, 1000, 1000, MaxSpins, FullWheel)}
    \cup {Config(b, 1000, b, LongSpins, LosingWheel) : b \in {0, -500}}
    \cup {Config(100000, s, 100000, MaxSpins, FullWheel) : s \in {0, -1000}}
    \cup {Config(1000, 1000, r, MaxSpins, FullWheel) : r \in {0, 100000}}
    \cup {Config(100000, 1, 100000, MaxSpins, FullWheel)}
    \cup {Config(1, 1000, 1, MaxSpins, FullWheel)}

----------------------------------------------------------------------------
(* simulator.py: run_simulation, one action per pass through the loop body *)

NoCall == [op |-> "none"]

InitRun ==
    /\ \E c \in SimConfigs :
        /\ sim = RouletteSimulator(c.initial_bank, c.base_bet)
        /\ rm = RiskMonitor(c.rm_bank, c.base_bet)
        /\ num_spins = c.num_spins
        /\ wheel = c.wheel
    /\ FIBONACCI_CACHE = <<>>
    /\ pc = "loop"
    /\ spin_count = 0
    /\ terminal = "RUNNING"
    /\ env = "run"
    /\ calls = 0
    /\ zero_flags = <<>>
    /\ since_win = 0
    /\ last = NoCall
    /\ user_sessions = <<>>
    /\ drivers = <<>>
    /\ alone = <<>>

\* The ghost counters of an update_state call.
Counted(win_amount, is_zero_result) ==
    /\ calls' = calls + 1
    /\ zero_flags' = Append(zero_flags, IF is_zero_result THEN 1 ELSE 0)
    /\ since_win' = IF win_amount > 0 THEN 0 ELSE since_win + 1

\* Lines 75-83: the pre-check finds a stop flag set, counts the flags and
\* leaves the loop; lines 194-204 compute the summary.
PreCheckStop ==
    /\ pc = "loop"
    /\ spin_count < num_spins
    /\ is_stop_suggested(rm)
    /\ sim' = Summarize([sim EXCEPT !.session_stats =
                CountTriggers([@ EXCEPT !.total_spins = spin_count + 1], rm)])
    /\ spin_count' = spin_count + 1
    /\ pc' = "done"
    /\ terminal' = "STOPPED_PRE"
    /\ last' = [op |-> "pre_check", pre |-> rm]
    /\ UNCHANGED <<user_sessions, drivers, alone>>
    /\ UNCHANGED <<rm, FIBONACCI_CACHE, num_spins, wheel, env, calls,
                   zero_flags, since_win>>

\* Mutant: a zero-stake round ends the run.
ZeroStakeRound_Terminates ==
    /\ pc = "loop"
    /\ spin_count < num_spins
    /\ ~is_stop_suggested(rm)
    /\ \E tie \in BOOLEAN, actual_spin_result \in wheel :
       \E formula_bet \in {calculate_bet(FIBONACCI_CACHE, sim.base_bet,
                               rm.current_streak, rm.z_count_last_50, tie)} :
       \E m_after \in {update_state(rm, 0, 0,
                           get_number_properties(actual_spin_result).is_zero,
                           None, tie)} :
        LET bet_amount == ClampStake(formula_bet, sim.current_bank)
            is_zero == get_number_properties(actual_spin_result).is_zero
        IN  /\ bet_amount <= 0
            /\ FIBONACCI_CACHE' = CacheAfterBet(FIBONACCI_CACHE, sim.base_bet,
                                      rm.current_streak, rm.z_count_last_50)
            /\ rm' = m_after
            /\ sim' = [sim EXCEPT
                    !.session_stats = [@ EXCEPT !.total_spins = spin_count + 1],
                    !.spin_history = Append(@, actual_spin_result),
                    !.bet_history = Append(@, ZeroStakeRecord(sim, m_after,
                                        spin_count + 1, actual_spin_result))]
            /\ last' = [op |-> "zero_stake_round", pre |-> rm,
                        formula_bet |-> formula_bet, bet_amount |-> 0,
                        win_amount |-> 0, is_zero_result |-> is_zero,
                        bank_before |-> sim.current_bank]
            /\ Counted(0, is_zero)
    /\ spin_count' = spin_count + 1
    /\ UNCHANGED <<user_sessions, drivers, alone>>
    /\ pc' = "done"
    /\ terminal' = "STOPPED_POST"
    /\ UNCHANGED <<num_spins, wheel, env>>

\* Lines 75-112: the stake of the round is <= 0; an outcome is drawn, the
\* monitor is updated with stake 0 and win 0, a record is appended and the
\* loop continues.
ZeroStakeRound ==
    /\ pc = "loop"
    /\ spin_count < num_spins
    /\ ~is_stop_suggested(rm)
    /\ \E tie \in BOOLEAN, actual_spin_result \in wheel :
       \E formula_bet \in {calculate_bet(FIBONACCI_CACHE, sim.base_bet,
                               rm.current_streak, rm.z_count_last_50, tie)} :
       \E m_after \in {update_state(rm, 0, 0,
                           get_number_properties(actual_spin_result).is_zero,
                           None, tie)} :
        LET bet_amount == ClampStake(formula_bet, sim.current_bank)
            is_zero == get_number_properties(actual_spin_result).is_zero
        IN  /\ bet_amount <= 0
            /\ FIBONACCI_CACHE' = CacheAfterBet(FIBONACCI_CACHE, sim.base_bet,
                                      rm.current_streak, rm.z_count_last_50)
            /\ rm' = m_after
            /\ sim' = [sim EXCEPT
                    !.session_stats = [@ EXCEPT !.total_spins = spin_count + 1],
                    !.spin_history = Append(@, actual_spin_result),
                    !.bet_history = Append(@, ZeroStakeRecord(sim, m_after,
                                        spin_count + 1, actual_spin_result))]
            /\ last' = [op |-> "zero_stake_round", pre |-> rm,
                        formula_bet |-> formula_bet, bet_amount |-> 0,
                        win_amount |-> 0, is_zero_result |-> is_zero,
                        bank_before |-> sim.current_bank]
            /\ Counted(0, is_zero)
    /\ spin_count' = spin_count + 1
    /\ UNCHANGED <<user_sessions, drivers, alone>>
    /\ UNCHANGED <<pc, num_spins, wheel, terminal, env>>

\* Mutant: the check of lines 190-192 is missing.
StakedRound_NoBankruptcyCheck ==
    /\ pc = "loop"
    /\ spin_count < num_spins
    /\ ~is_stop_suggested(rm)
    /\ \E tie \in BOOLEAN, tie2 \in BOOLEAN, actual_spin_result \in wheel :
       \E formula_bet \in {calculate_bet(FIBONACCI_CACHE, sim.base_bet,
                               rm.current_streak, rm.z_count_last_50, tie)} :
       \E bet_amount \in {ClampStake(formula_bet, sim.current_bank)} :
       \E outcome \in {place_bet_and_determine_outcome(bet_amount,
                                                       actual_spin_result)} :
       \E m_after \in {update_state(rm, bet_amount, outcome[1], outcome[2],
                                    Some(sim.current_bank), tie2)} :
        LET bank_before == sim.current_bank
            win_amount == outcome[1]
            is_zero == outcome[2]
            bank_after == m_after.current_bank
            stats1 == CountBuffer([sim.session_stats EXCEPT
                                      !.total_spins = spin_count + 1],
                                  rm.zero_buffer, m_after.zero_buffer)
            stats2 == CountRound(stats1, sim.initial_bank, bank_after, m_after,
                                 win_amount, is_zero)
            stopped == is_stop_suggested(m_after)
            bankrupt == FALSE
            stats3 == IF stopped THEN CountTriggers(stats2, m_after) ELSE stats2
            s1 == [sim EXCEPT
                    !.current_bank = bank_after,
                    !.spin_history = Append(@, actual_spin_result),
                    !.bet_history = Append(@, StakedRecord(m_after, spin_count + 1,
                                        actual_spin_result, bet_amount, win_amount,
                                        is_zero, bank_before, bank_after)),
                    !.session_stats = stats3]
        IN  /\ bet_amount > 0
            /\ FIBONACCI_CACHE' = CacheAfterBet(FIBONACCI_CACHE, sim.base_bet,
                                      rm.current_streak, rm.z_count_last_50)
            /\ rm' = m_after
            /\ sim' = IF stopped \/ bankrupt THEN Summarize(s1) ELSE s1
            /\ pc' = IF stopped \/ bankrupt THEN "done" ELSE "loop"
            /\ terminal' = IF stopped THEN "STOPPED_POST"
                           ELSE IF bankrupt THEN "BANKRUPT" ELSE terminal
            /\ last' = [op |-> "staked_round", pre |-> rm,
                        formula_bet |-> formula_bet, bet_amount |-> bet_amount,
                        win_amount |-> win_amount, is_zero_result |-> is_zero,
                        bank_before |-> bank_before]
            /\ Counted(win_amount, is_zero)
    /\ spin_count' = spin_count + 1
    /\ UNCHANGED <<user_sessions, drivers, alone>>
    /\ UNCHANGED <<num_spins, wheel, env>>

\* Mutant: the simulator computes its bank itself, stake and win only.
StakedRound_OwnBankArithmetic ==
    /\ pc = "loop"
    /\ spin_count < num_spins
    /\ ~is_stop_suggested(rm)
    /\ \E tie \in BOOLEAN, tie2 \in BOOLEAN, actual_spin_result \in wheel :
       \E formula_bet \in {calculate_bet(FIBONACCI_CACHE, sim.base_bet,
                               rm.current_streak, rm.z_count_last_50, tie)} :
       \E bet_amount \in {ClampStake(formula_bet, sim.current_bank)} :
       \E outcome \in {place_bet_and_determine_outcome(bet_amount,
                                                       actual_spin_result)} :
       \E m_after \in {update_state(rm, bet_amount, outcome[1], outcome[2],
                                    Some(sim.current_bank), tie2)} :
        LET bank_before == sim.current_bank
            win_amount == outcome[1]
            is_zero == outcome[2]
            bank_after == IF win_amount > 0 THEN bank_before + win_amount
                          ELSE bank_before - bet_amount
            stats1 == CountBuffer([sim.session_stats EXCEPT
                                      !.total_spins = spin_count + 1],
                                  rm.zero_buffer, m_after.zero_buffer)
            stats2 == CountRound(stats1, sim.initial_bank, bank_after, m_after,
                                 win_amount, is_zero)
            stopped == is_stop_suggested(m_after)
            bankrupt == ~stopped /\ bank_after <= 0
            stats3 == IF stopped THEN CountTriggers(stats2, m_after) ELSE stats2
            s1 == [sim EXCEPT
                    !.current_bank = bank_after,
                    !.spin_history = Append(@, actual_spin_result),
                    !.bet_history = Append(@, StakedRecord(m_after, spin_count + 1,
                                        actual_spin_result, bet_amount, win_amount,
                                        is_zero, bank_before, bank_after)),
                    !.session_stats = stats3]
        IN  /\ bet_amount > 0
            /\ FIBONACCI_CACHE' = CacheAfterBet(FIBONACCI_CACHE, sim.base_bet,
                                      rm.current_streak, rm.z_count_last_50)
            /\ rm' = m_after
            /\ sim' = IF stopped \/ bankrupt THEN Summarize(s1) ELSE s1
            /\ pc' = IF stopped \/ bankrupt THEN "done" ELSE "loop"
            /\ terminal' = IF stopped THEN "STOPPED_POST"
                           ELSE IF bankrupt THEN "BANKRUPT" ELSE terminal
            /\ last' = [op |-> "staked_round", pre |-> rm,
                        formula_bet |-> formula_bet, bet_amount |-> bet_amount,
                        win_amount |-> win_amount, is_zero_result |-> is_zero,
                        bank_before |-> bank_before]
            /\ Counted(win_amount, is_zero)
    /\ spin_count' = spin_count + 1
    /\ UNCHANGED <<user_sessions, drivers, alone>>
    /\ UNCHANGED <<num_spins, wheel, env>>

\* Lines 75-192: a staked round.  The post-check leaves the loop when a stop
\* flag is set, the bankruptcy check when the bank is <= 0; a round that
\* leaves the loop goes on to the summary of lines 194-204.
StakedRound ==
    /\ pc = "loop"
    /\ spin_count < num_spins
    /\ ~is_stop_suggested(rm)
    /\ \E tie \in BOOLEAN, tie2 \in BOOLEAN, actual_spin_result \in wheel :
       \E formula_bet \in {calculate_bet(FIBONACCI_CACHE, sim.base_bet,
                               rm.current_streak, rm.z_count_last_50, tie)} :
       \E bet_amount \in {ClampStake(formula_bet, sim.current_bank)} :
       \E outcome \in {place_bet_and_determine_outcome(bet_amount,
                                                       actual_spin_result)} :
       \E m_after \in {update_state(rm, bet_amount, outcome[1], outcome[2],
                                    Some(sim.current_bank), tie2)} :
        LET bank_before == sim.current_bank
            win_amount == outcome[1]
            is_zero == outcome[2]
            bank_after == m_after.current_bank
            stats1 == CountBuffer([sim.session_stats EXCEPT
                                      !.total_spins = spin_count + 1],
                                  rm.zero_buffer, m_after.zero_buffer)
            stats2 == CountRound(stats1, sim.initial_bank, bank_after, m_after,
                                 win_amount, is_zero)
            stopped == is_stop_suggested(m_after)
            bankrupt == ~stopped /\ bank_after <= 0
            stats3 == IF stopped THEN CountTriggers(stats2, m_after) ELSE stats2
            s1 == [sim EXCEPT
                    !.current_bank = bank_after,
                    !.spin_history = Append(@, actual_spin_result),
                    !.bet_history = Append(@, StakedRecord(m_after, spin_count + 1,
                                        actual_spin_result, bet_amount, win_amount,
                                        is_zero, bank_before, bank_after)),
                    !.session_stats = stats3]
        IN  /\ bet_amount > 0
            /\ FIBONACCI_CACHE' = CacheAfterBet(FIBONACCI_CACHE, sim.base_bet,
                                      rm.current_streak, rm.z_count_last_50)
            /\ rm' = m_after
            /\ sim' = IF stopped \/ bankrupt THEN Summarize(s1) ELSE s1
            /\ pc' = IF stopped \/ bankrupt THEN "done" ELSE "loop"
            /\ terminal' = IF stopped THEN "STOPPED_POST"
                           ELSE IF bankrupt THEN "BANKRUPT" ELSE terminal
            /\ last' = [op |-> "staked_round", pre |-> rm,
                        formula_bet |-> formula_bet, bet_amount |-> bet_amount,
                        win_amount |-> win_amount, is_zero_result |-> is_zero,
                        bank_before |-> bank_before]
            /\ Counted(win_amount, is_zero)
    /\ spin_count' = spin_count + 1
    /\ UNCHANGED <<user_sessions, drivers, alone>>
    /\ UNCHANGED <<num_spins, wheel, env>>

\* Mutant: the loop asks for one round more than its budget before it ends.
LoopExhausted_OneMore ==
    /\ pc = "loop"
    /\ spin_count > num_spins
    /\ sim' = Summarize(sim)
    /\ pc' = "done"
    /\ terminal' = "COMPLETED"
    /\ last' = [op |-> "loop_exhausted", pre |-> rm]
    /\ UNCHANGED <<user_sessions, drivers, alone>>
    /\ UNCHANGED <<rm, FIBONACCI_CACHE, spin_count, num_spins, wheel, env,
                   calls, zero_flags, since_win>>

\* Lines 75 and 194-204: range(1, num_spins + 1) is exhausted; the summary.
LoopExhausted ==
    /\ pc = "loop"
    /\ spin_count >= num_spins
    /\ sim' = Summarize(sim)
    /\ pc' = "done"
    /\ terminal' = "COMPLETED"
    /\ last' = [op |-> "loop_exhausted", pre |-> rm]
    /\ UNCHANGED <<user_sessions, drivers, alone>>
    /\ UNCHANGED <<rm, FIBONACCI_CACHE, spin_count, num_spins, wheel, env,
                   calls, zero_flags, since_win>>

NextRun ==
    \/ PreCheckStop
    \/ ZeroStakeRound
    \/ StakedRound
    \/ LoopExhausted

Spec == InitRun /\ [][NextRun]_vars

\* The runs explored for termination: every configuration of SimConfigs but
\* the long run of staked losses.
InitFair ==
    /\ InitRun
    /\ ~(num_spins = LongSpins /\ sim.initial_bank > 0)

\* run_simulation is one sequential call: while its loop has a step to take,
\* it takes it.
SpecFair == InitFair /\ [][NextRun]_vars /\ WF_vars(NextRun)

----------------------------------------------------------------------------
(* risk_monitor.py driven directly: construction, update_state, reset_state  *)
(* and the preset of the reserve made by the module's own test.              *)

\* Calls explored with every input of FreeInputs.
MaxCalls == 3
\* Calls explored with the narrow inputs of LongInputs, enough for the window
\* of 50 to fill and evict.
LongCalls == 55
\* In a long behaviour the zero flag may be set only in the first ZeroCalls calls.
ZeroCalls == 4

\* (initial bank, base bet) of the monitors built or reset, in cents.
MonConfigs == {<<100000, 1000>>, <<5000, 1000>>, <<0, 1000>>}
\* The monitors driven through a long behaviour.
LongConfigs == {<<100000, 1000>>}

\* <<bet_amount, win_amount>> of a call.
FreeStakes == {<<25, 0>>, <<1000, 0>>, <<10, 10>>, <<1000, 1000>>}
FreeOverrides == {None, Some(100000)}

\* The inputs <<bet_amount, win_amount, is_zero_result, current_bank_override>>
\* offered to the next update_state call.
FreeInputs ==
    {<<bw[1], bw[2], z, o>> : bw \in FreeStakes, z \in BOOLEAN,
                              o \in FreeOverrides}

\* A long behaviour is made of zero-stake losing calls, with a zero outcome
\* possible in its first ZeroCalls calls, and of a staked win when the loss
\* streak stands at its limit.
LongInputs ==
    {<<0, 0, FALSE, None>>}
    \cup (IF calls < ZeroCalls THEN {<<0, 0, TRUE, None>>} ELSE {})
    \cup (IF rm.current_streak = MAX_CONSECUTIVE_LOSSES_LIMIT
          THEN {<<1000, 1000, FALSE, None>>} ELSE {})

InitMon ==
    /\ \E c \in MonConfigs :
        /\ rm = RiskMonitor(c[1], c[2])
        /\ env \in (IF c \in LongConfigs THEN {"free", "long"} ELSE {"free"})
    /\ FIBONACCI_CACHE = <<>>
    /\ sim = RouletteSimulator(0, 0)
    /\ pc = "monitor"
    /\ spin_count = 0
    /\ num_spins = 0
    /\ wheel = {}
    /\ terminal = "RUNNING"
    /\ calls = 0
    /\ zero_flags = <<>>
    /\ since_win = 0
    /\ last = NoCall
    /\ user_sessions = <<>>
    /\ drivers = <<>>
    /\ alone = <<>>

\* One RiskMonitor.update_state call.
UpdateState ==
    /\ pc = "monitor"
    /\ calls < (IF env = "free" THEN MaxCalls ELSE LongCalls)
    /\ \E in \in (IF env = "free" THEN FreeInputs ELSE LongInputs),
          tie \in BOOLEAN :
        /\ rm' = update_state(rm, in[1], in[2], in[3], in[4], tie)
        /\ last' = [op |-> "update_state", pre |-> rm, bet_amount |-> in[1],
                    win_amount |-> in[2], is_zero_result |-> in[3],
                    current_bank_override |-> in[4]]
        /\ Counted(in[2], in[3])
    /\ UNCHANGED <<user_sessions, drivers, alone>>
    /\ UNCHANGED <<FIBONACCI_CACHE, sim, pc, spin_count, num_spins, wheel,
                   terminal, env>>

\* Mutant: the reset leaves the reserve as it was.
ResetState_KeepsReserve ==
    /\ pc = "monitor"
    /\ calls > 0
    /\ \E c \in MonConfigs :
        /\ rm' = [reset_state(c[1], c[2]) EXCEPT !.zero_buffer = rm.zero_buffer]
        /\ last' = [op |-> "reset_state", pre |-> rm,
                    new_initial_bank |-> c[1], new_base_bet |-> c[2]]
    /\ calls' = 0
    /\ zero_flags' = <<>>
    /\ since_win' = 0
    /\ UNCHANGED <<user_sessions, drivers, alone>>
    /\ UNCHANGED <<FIBONACCI_CACHE, sim, pc, spin_count, num_spins, wheel,
                   terminal, env>>

\* One RiskMonitor.reset_state call, after at least one update_state.
ResetState ==
    /\ pc = "monitor"
    /\ calls > 0
    /\ \E c \in MonConfigs :
        /\ rm' = reset_state(c[1], c[2])
        /\ last' = [op |-> "reset_state", pre |-> rm,
                    new_initial_bank |-> c[1], new_base_bet |-> c[2]]
    /\ calls' = 0
    /\ zero_flags' = <<>>
    /\ since_win' = 0
    /\ UNCHANGED <<user_sessions, drivers, alone>>
    /\ UNCHANGED <<FIBONACCI_CACHE, sim, pc, spin_count, num_spins, wheel,
                   terminal, env>>

\* risk_monitor.py line 155: the test presets the reserve of a monitor it
\* has just reset: monitor.zero_buffer = 20.
PresetBuffer ==
    /\ pc = "monitor"
    /\ env = "free"
    /\ calls = 0
    /\ rm.zero_buffer = 0
    /\ rm' = [rm EXCEPT !.zero_buffer = 2000]
    /\ last' = [op |-> "preset_buffer", pre |-> rm]
    /\ UNCHANGED <<user_sessions, drivers, alone>>
    /\ UNCHANGED <<FIBONACCI_CACHE, sim, pc, spin_count, num_spins, wheel,
                   terminal, env, calls, zero_flags, since_win>>

\* Mutant: the query clears the flags it has read.
IsStopSuggested_ClearsFlags ==
    /\ pc = "monitor"
    /\ rm' = [rm EXCEPT !.stop_conditions_met = NoStop]
    /\ last' = [op |-> "is_stop_suggested", pre |-> rm,
                result |-> is_stop_suggested(rm)]
    /\ UNCHANGED <<user_sessions, drivers, alone>>
    /\ UNCHANGED <<FIBONACCI_CACHE, sim, pc, spin_count, num_spins, wheel,
                   terminal, env, calls, zero_flags, since_win>>

\* One RiskMonitor.is_stop_suggested call, at any point between the other
\* calls: the method returns any(stop_conditions_met.values()) and assigns
\* nothing.
IsStopSuggested ==
    /\ pc = "monitor"
    /\ rm' = rm
    /\ last' = [op |-> "is_stop_suggested", pre |-> rm,
                result |-> is_stop_suggested(rm)]
    /\ UNCHANGED <<user_sessions, drivers, alone>>
    /\ UNCHANGED <<FIBONACCI_CACHE, sim, pc, spin_count, num_spins, wheel,
                   terminal, env, calls, zero_flags, since_win>>

NextMon ==
    \/ UpdateState
    \/ ResetState
    \/ PresetBuffer
    \/ IsStopSuggested

SpecMon == InitMon /\ [][NextMon]_vars

----------------------------------------------------------------------------
(* adaptive_shield_engine.py driven directly: get_fib_for_streak and         *)
(* calculate_bet called in any order on the process-wide FIBONACCI_CACHE.    *)

\* The largest streak passed to either function.
MaxStreak == 13

\* The arguments offered: base stakes in cents, streaks and zero counts.
BaseInputs == {-1000, 0, 1000, 2550}
StreakInputs == -1..MaxStreak
ZCountInputs == {-1, 0, 3, 49, 50, 60}

\* The module is imported: FIBONACCI_CACHE = {}.
InitEng ==
    /\ FIBONACCI_CACHE = <<>>
    /\ rm = RiskMonitor(0, 0)
    /\ sim = RouletteSimulator(0, 0)
    /\ pc = "engine"
    /\ spin_count = 0
    /\ num_spins = 0
    /\ wheel = {}
    /\ terminal = "RUNNING"
    /\ env = "engine"
    /\ calls = 0
    /\ zero_flags = <<>>
    /\ since_win = 0
    /\ last = NoCall
    /\ user_sessions = <<>>
    /\ drivers = <<>>
    /\ alone = <<>>

\* One get_fib_for_streak call.
GetFib ==
    /\ pc = "engine"
    /\ \E streak \in StreakInputs :
       \E r \in {get_fib_for_streak(FIBONACCI_CACHE, streak)} :
        /\ FIBONACCI_CACHE' = r.cache
        /\ last' = [op |-> "get_fib_for_streak", streak |-> streak,
                    cache_before |-> FIBONACCI_CACHE,
                    value |-> r.value, raised |-> r.raised]
    /\ UNCHANGED <<user_sessions, drivers, alone>>
    /\ UNCHANGED <<rm, sim, pc, spin_count, num_spins, wheel, terminal, env,
                   calls, zero_flags, since_win>>

\* One calculate_bet call.
CalculateBet ==
    /\ pc = "engine"
    /\ \E base_bet \in BaseInputs, current_streak \in StreakInputs,
          z_count_last_50 \in ZCountInputs, tie \in BOOLEAN :
        /\ FIBONACCI_CACHE' = CacheAfterBet(FIBONACCI_CACHE, base_bet,
                                  current_streak, z_count_last_50)
        /\ last' = [op |-> "calculate_bet", base_bet |-> base_bet,
                    current_streak |-> current_streak,
                    z_count_last_50 |-> z_count_last_50,
                    value |-> calculate_bet(FIBONACCI_CACHE, base_bet,
                                  current_streak, z_count_last_50, tie),
                    raised |-> BetRaises(FIBONACCI_CACHE, base_bet,
                                   current_streak, z_count_last_50)]
    /\ UNCHANGED <<user_sessions, drivers, alone>>
    /\ UNCHANGED <<rm, sim, pc, spin_count, num_spins, wheel, terminal, env,
                   calls, zero_flags, since_win>>

NextEng ==
    \/ GetFib
    \/ CalculateBet

SpecEng == InitEng /\ [][NextEng]_vars

----------------------------------------------------------------------------
(* Claims *)

AnyFlag(m) ==
    \/ m.stop_conditions_met.loss_streak_limit
    \/ m.stop_conditions_met.zero_count_limit
    \/ m.stop_conditions_met.drawdown_limit

RoundOps == {"zero_stake_round", "staked_round"}

\* C1: once an update_state call of a run leaves a stop flag true, the run
\* ends at its next autostop check: a staked round that leaves a flag true
\* ends the run in its own post-check, and from any state of the loop with a
\* flag true the only step is the end of the run, which draws no outcome,
\* appends no record and leaves the monitor as it is; so no later round
\* places a stake.
C1_StopsAtNextCheck ==
    [][ /\ (last'.op = "staked_round" /\ AnyFlag(rm'))
            => (pc' = "done" /\ terminal' = "STOPPED_POST")
        /\ (pc = "loop" /\ AnyFlag(rm))
            => /\ pc' = "done"
               /\ terminal' \in {"STOPPED_PRE", "COMPLETED"}
               /\ terminal' = "COMPLETED" => spin_count = num_spins
               /\ rm' = rm
               /\ sim'.bet_history = sim.bet_history
               /\ sim'.spin_history = sim.spin_history
               /\ sim'.current_bank = sim.current_bank ]_vars

\* C1 witness: a zero-stake round left the loss-streak flag true and the
\* pre-check of the following round ended the run.
C1_Witness ==
    /\ terminal = "STOPPED_PRE"
    /\ rm.stop_conditions_met.loss_streak_limit
    /\ Len(sim.bet_history) >= MAX_CONSECUTIVE_LOSSES_LIMIT
    /\ sim.bet_history[Len(sim.bet_history)].bet_amount = 0

\* C1, the other check: a staked round left a flag true and its post-check
\* ended the run.
C1_WitnessPost ==
    /\ terminal = "STOPPED_POST"
    /\ last.op = "staked_round"
    /\ rm.stop_conditions_met.zero_count_limit
    /\ ~rm.stop_conditions_met.drawdown_limit

InvalidConfig == sim.initial_bank <= 0 \/ sim.base_bet <= 0

C2_WitnessBank ==
    /\ sim.initial_bank = 0
    /\ sim.base_bet > 0
    /\ Len(sim.bet_history) >= 2

\* The last k elements of a sequence.
LastOf(seq, k) == SubSeq(seq, Len(seq) - k + 1, Len(seq))

\* C3: after n update_state calls since construction or reset the window has
\* length min(50, n) and holds the zero flags of the most recent min(50, n)
\* calls in order, and z_count_last_50 is the sum of those flags, within 0..50.
C3_WindowIsLastFifty ==
    LET k == Min(50, calls)
    IN  /\ Len(zero_flags) = calls
        /\ Len(rm.spin_history_for_zero_count) = k
        /\ rm.spin_history_for_zero_count = LastOf(zero_flags, k)
        /\ rm.z_count_last_50 = SeqSum(LastOf(zero_flags, k))
        /\ rm.z_count_last_50 \in 0..50

\* C3 witness: 52 calls, of which the first and the third were zeros; the
\* first has been evicted, the third is still counted.
C3_Witness ==
    /\ calls = 52
    /\ zero_flags[1] = 1
    /\ zero_flags[2] = 0
    /\ zero_flags[3] = 1
    /\ zero_flags[4] = 0
    /\ rm.z_count_last_50 = 1
    /\ rm.spin_history_for_zero_count[1] = 1

IsRound == last.op \in RoundOps

IsUpdate == last.op = "update_state"

\* The bank update_state starts from: the override when one is passed, the
\* monitor's own bank otherwise.
BankBeforeStake ==
    IF last.current_bank_override = None THEN last.pre.current_bank
    ELSE last.current_bank_override[1]

\* c is x/100 cents rounded to whole cents (either way at an exact half).
IsRounded(c, x) == c * 100 - x \in -50..50 /\ (x % 100 # 50 => c * 100 - x \in -49..49)

\* C5: the reserve is never negative; an update_state call raises it only
\* when win_amount > 0, and on a zero-outcome loss lowers it by at most what
\* it held.
C5_ReserveNonNegative ==
    /\ rm.zero_buffer >= 0
    /\ IsUpdate =>
        /\ rm.zero_buffer > last.pre.zero_buffer => last.win_amount > 0
        /\ last.win_amount = 0 =>
            /\ last.pre.zero_buffer - rm.zero_buffer \in 0..last.pre.zero_buffer
            /\ ~last.is_zero_result => rm.zero_buffer = last.pre.zero_buffer

\* C5 witness: a zero-outcome loss whose half stake exceeded the reserve
\* spent all of it.
C5_Witness ==
    /\ IsUpdate
    /\ last.win_amount = 0
    /\ last.is_zero_result
    /\ last.pre.zero_buffer > 0
    /\ last.bet_amount * ZERO_LOSS_COMPENSATION_RATE > last.pre.zero_buffer * 100
    /\ rm.zero_buffer = 0

\* C6: on a zero-outcome loss the compensation is min(0.5 * bet, reserve)
\* rounded to cents; the bank becomes bank_before - bet + compensation, the
\* reserve falls by the compensation, the streak rises by 1 and the zero is
\* counted in the window.
C6_ZeroLoss ==
    (IsUpdate /\ last.win_amount = 0 /\ last.is_zero_result) =>
        LET compensation == last.pre.zero_buffer - rm.zero_buffer
        IN  /\ IsRounded(compensation,
                         Min(last.bet_amount * 50, last.pre.zero_buffer * 100))
            /\ rm.current_bank = BankBeforeStake - last.bet_amount + compensation
            /\ rm.current_streak = last.pre.current_streak + 1
            /\ rm.spin_history_for_zero_count[Len(rm.spin_history_for_zero_count)] = 1
            /\ rm.z_count_last_50 >= 1

\* C6 witness: bank 1000.00, stake 10.00, reserve 20.00 on a reset monitor:
\* compensation 5.00, bank 995.00, reserve 15.00, streak 1, zero count 1.
C6_Witness ==
    /\ IsUpdate
    /\ last.win_amount = 0
    /\ last.is_zero_result
    /\ last.bet_amount = 1000
    /\ BankBeforeStake = 100000
    /\ last.pre.zero_buffer = 2000
    /\ rm.current_bank = 99500
    /\ rm.zero_buffer = 1500
    /\ rm.current_streak = 1
    /\ rm.z_count_last_50 = 1

\* C7: on a win the bank becomes bank_before_stake + win_amount (the stake is
\* not deducted), the streak becomes 0 and the reserve grows by 5% of the win
\* rounded to cents; without an override bank_before_stake is the monitor's
\* own bank.
C7_Win ==
    (IsUpdate /\ last.win_amount > 0) =>
        /\ rm.current_bank = BankBeforeStake + last.win_amount
        /\ rm.current_streak = 0
        /\ IsRounded(rm.zero_buffer - last.pre.zero_buffer, last.win_amount * 5)
        /\ last.current_bank_override = None =>
            rm.current_bank = last.pre.current_bank + last.win_amount

\* C7 witness: bank 1000.00, stake 10.00, net win 10.00, no override:
\* bank 1010.00, streak 0, reserve 0.50.
C7_Witness ==
    /\ IsUpdate
    /\ last.current_bank_override = None
    /\ last.pre.current_bank = 100000
    /\ last.pre.zero_buffer = 0
    /\ last.bet_amount = 1000
    /\ last.win_amount = 1000
    /\ ~last.is_zero_result
    /\ rm.current_bank = 101000
    /\ rm.current_streak = 0
    /\ rm.zero_buffer = 50

\* The flag the window drops in a call: its oldest when it was full.
Evicted(m) ==
    IF Len(m.spin_history_for_zero_count) = 50
    THEN m.spin_history_for_zero_count[1] ELSE 0

\* C8: on a loss with a non-zero outcome the bank becomes bank_before_stake -
\* bet_amount and the streak rises by 1; the reserve is unchanged and the zero
\* count changes only by the flag the window evicts.
C8_PlainLoss ==
    (IsUpdate /\ last.win_amount = 0 /\ ~last.is_zero_result) =>
        /\ rm.current_bank = BankBeforeStake - last.bet_amount
        /\ rm.current_streak = last.pre.current_streak + 1
        /\ rm.zero_buffer = last.pre.zero_buffer
        /\ rm.z_count_last_50 = last.pre.z_count_last_50 - Evicted(last.pre)
        /\ rm.initial_bank = last.pre.initial_bank
        /\ rm.base_bet = last.pre.base_bet

\* C8 witness: bank 1000.00, stake 10.00 on a reset monitor with override
\* 1000.00: bank 990.00, streak 1.
C8_Witness ==
    /\ IsUpdate
    /\ last.win_amount = 0
    /\ ~last.is_zero_result
    /\ last.bet_amount = 1000
    /\ last.current_bank_override = Some(100000)
    /\ last.pre.current_streak = 0
    /\ rm.current_bank = 99000
    /\ rm.current_streak = 1

\* C8, the eviction: a plain loss with a full window dropped a counted zero.
C8_WitnessEviction ==
    /\ IsUpdate
    /\ last.win_amount = 0
    /\ ~last.is_zero_result
    /\ Evicted(last.pre) = 1
    /\ rm.z_count_last_50 = last.pre.z_count_last_50 - 1

\* C9: the streak is >= 0 and is the number of calls since the most recent
\* call with win_amount > 0 (since construction or reset if there was none):
\* a call sets it to 0 exactly when it wins and otherwise adds 1.
C9_StreakCountsLosses ==
    /\ rm.current_streak >= 0
    /\ rm.current_streak = since_win
    /\ IsUpdate =>
        /\ last.win_amount > 0 <=> rm.current_streak = 0
        /\ last.win_amount = 0 => rm.current_streak = last.pre.current_streak + 1

\* C9 witness: a win after a streak of at least 15 losses.
C9_Witness ==
    /\ IsUpdate
    /\ last.win_amount > 0
    /\ last.pre.current_streak >= MAX_CONSECUTIVE_LOSSES_LIMIT
    /\ rm.current_streak = 0

\* C10: after every update_state call each stop flag equals its predicate on
\* the state the call leaves, whatever the flag was before.
C10_FlagsRecomputed ==
    IsUpdate =>
        /\ rm.stop_conditions_met.loss_streak_limit <=> rm.current_streak >= 15
        /\ rm.stop_conditions_met.zero_count_limit <=> rm.z_count_last_50 >= 4
        /\ rm.initial_bank > 0 =>
            (rm.stop_conditions_met.drawdown_limit
                <=> (rm.initial_bank - rm.current_bank) * 5 >= rm.initial_bank)
        /\ rm.initial_bank <= 0 =>
            (rm.stop_conditions_met.drawdown_limit <=> rm.current_bank < 0)

\* C10 witness: the zero-count flag set by an earlier call is cleared when
\* the window evicts one of its four zeros.
C10_Witness ==
    /\ IsUpdate
    /\ last.pre.stop_conditions_met.zero_count_limit
    /\ ~rm.stop_conditions_met.zero_count_limit
    /\ rm.z_count_last_50 = 3

\* C10, the loss-streak flag cleared by a win.
C10_WitnessStreak ==
    /\ IsUpdate
    /\ last.pre.stop_conditions_met.loss_streak_limit
    /\ ~rm.stop_conditions_met.loss_streak_limit

\* C10, the drawdown flag cleared when the bank recovers.
C10_WitnessDrawdown ==
    /\ IsUpdate
    /\ last.pre.stop_conditions_met.drawdown_limit
    /\ ~rm.stop_conditions_met.drawdown_limit
    /\ rm.initial_bank > 0

\* C10, the drawdown flag of a monitor whose initial bank is not positive.
C10_WitnessNoBank ==
    /\ IsUpdate
    /\ rm.initial_bank <= 0
    /\ rm.current_bank < 0
    /\ rm.stop_conditions_met.drawdown_limit

\* C11: is_stop_suggested is a pure read: a call returns true iff at least
\* one stop flag is true and leaves every attribute of the monitor (banks,
\* streak, zero window, zero count, reserve, flags) as it was, so the state
\* every later operation starts from is the state it would have started from
\* without the call.
C11_QueryIsPureRead ==
    last.op = "is_stop_suggested" =>
        /\ last.result <=> (\E k \in DOMAIN last.pre.stop_conditions_met :
                                last.pre.stop_conditions_met[k])
        /\ rm = last.pre

\* C11 witness: a query after an update_state call that left only the
\* drawdown flag true answered true.
C11_Witness ==
    /\ last.op = "is_stop_suggested"
    /\ calls > 0
    /\ last.result
    /\ rm.stop_conditions_met.drawdown_limit
    /\ ~rm.stop_conditions_met.loss_streak_limit
    /\ ~rm.stop_conditions_met.zero_count_limit
    /\ rm.current_streak > 0

\* C11, the query before any transition answered false.
C11_WitnessBefore ==
    /\ last.op = "is_stop_suggested"
    /\ calls = 0
    /\ ~last.result
    /\ rm.zero_buffer = 0

\* C12: after any sequence of update_state calls, reset_state(b, s) leaves
\* the monitor in the state of a newly constructed RiskMonitor(b, s): initial
\* and current bank b, base stake s, streak 0, empty window, zero count 0,
\* reserve 0 and the three stop flags false.
C12_ResetIsFresh ==
    last.op = "reset_state" =>
        /\ rm = RiskMonitor(last.new_initial_bank, last.new_base_bet)
        /\ rm.initial_bank = last.new_initial_bank
        /\ rm.current_bank = last.new_initial_bank
        /\ rm.base_bet = last.new_base_bet
        /\ rm.current_streak = 0
        /\ rm.spin_history_for_zero_count = <<>>
        /\ rm.z_count_last_50 = 0
        /\ rm.zero_buffer = 0
        /\ ~rm.stop_conditions_met.loss_streak_limit
        /\ ~rm.stop_conditions_met.zero_count_limit
        /\ ~rm.stop_conditions_met.drawdown_limit
        /\ DOMAIN rm = DOMAIN last.pre

\* C12 witness: a monitor with a streak, a counted zero, a reserve, a stop
\* flag and a changed bank is reset to another initial bank.
C12_Witness ==
    /\ last.op = "reset_state"
    /\ last.pre.current_streak > 0
    /\ last.pre.z_count_last_50 > 0
    /\ last.pre.zero_buffer > 0
    /\ AnyFlag(last.pre)
    /\ last.pre.current_bank # last.pre.initial_bank
    /\ last.new_initial_bank # last.pre.initial_bank
    /\ rm.current_bank = last.new_initial_bank
    /\ rm.zero_buffer = 0

\* C12, a reset after the window of 50 has filled.
C12_WitnessFullWindow ==
    /\ last.op = "reset_state"
    /\ Len(last.pre.spin_history_for_zero_count) = MAX_HISTORY_FOR_ZERO_COUNT
    /\ last.pre.stop_conditions_met.loss_streak_limit
    /\ rm.spin_history_for_zero_count = <<>>

IsBet == last.op = "calculate_bet"

\* The sequence of the stake formula: 1, 1, 1, 2, 3, 5, ...
RECURSIVE FibTerm(_)
FibTerm(k) == IF k <= 2 THEN 1 ELSE FibTerm(k - 1) + FibTerm(k - 2)

\* v is the fraction n/d (d > 0) rounded to the nearest integer, either way
\* at an exact half.
IsNearest(v, n, d) == 2 * (v * d - n) \in (0 - d)..d

\* C13: for base > 0, streak >= 0 and a zero count in 0..49, calculate_bet
\* returns base * fib(streak) * (1 - z/50) / (1 + streak/15) rounded to two
\* decimals (here: to whole cents); calculate_bet(10, 12, 3) = 752.00 and
\* calculate_bet(10, 0, 3) = 9.40.
C13_StakeFormula ==
    (/\ IsBet
     /\ last.base_bet > 0
     /\ last.current_streak >= 0
     /\ last.z_count_last_50 \in 0..49) =>
        /\ ~last.raised
        /\ IsNearest(last.value,
                     last.base_bet * FibTerm(last.current_streak)
                         * (50 - last.z_count_last_50) * 15,
                     50 * (15 + last.current_streak))
        /\ (/\ last.base_bet = 1000
            /\ last.current_streak = 12
            /\ last.z_count_last_50 = 3) => last.value = 75200
        /\ (/\ last.base_bet = 1000
            /\ last.current_streak = 0
            /\ last.z_count_last_50 = 3) => last.value = 940

\* C13 witness: the reference scenario, base 10.00, streak 12, zero count 3,
\* gives 752.00.
C13_Witness ==
    /\ IsBet
    /\ last.base_bet = 1000
    /\ last.current_streak = 12
    /\ last.z_count_last_50 = 3
    /\ last.value = 75200
    /\ 12 \in DOMAIN FIBONACCI_CACHE

\* C13, a stake that is not a whole number of cents before rounding:
\* base 25.50, streak 4, zero count 49 gives 25.50 * 3 * 0.02 / (19/15) = 1.2079,
\* returned as 1.21.
C13_WitnessRounded ==
    /\ IsBet
    /\ last.base_bet = 2550
    /\ last.current_streak = 4
    /\ last.z_count_last_50 = 49
    /\ last.value = 121

\* C14: for every base > 0 and every streak >= 0, calculate_bet with a zero
\* count of exactly 50 returns 0.00.
C14_ZeroBufferFactor ==
    (/\ IsBet
     /\ last.base_bet > 0
     /\ last.current_streak >= 0
     /\ last.z_count_last_50 = 50) =>
        /\ last.value = 0
        /\ ~last.raised

\* C14 witness: base 10.00, streak 5, zero count 50 gives 0.00; the call has
\* computed fib(5) before it met the zero buffer factor.
C14_Witness ==
    /\ IsBet
    /\ last.base_bet = 1000
    /\ last.current_streak = 5
    /\ last.z_count_last_50 = 50
    /\ last.value = 0
    /\ 5 \in DOMAIN FIBONACCI_CACHE

\* C15: a violated precondition (base <= 0, streak < 0, zero count outside
\* 0..50) makes calculate_bet return 0 without raising, although
\* get_fib_for_streak raises for a negative streak.
C15_ViolationsGiveZero ==
    /\ (/\ IsBet
        /\ \/ last.base_bet <= 0
           \/ last.current_streak < 0
           \/ last.z_count_last_50 \notin 0..50) =>
            /\ last.value = 0
            /\ ~last.raised
    /\ (last.op = "get_fib_for_streak" /\ last.streak < 0) =>
            /\ last.raised
            /\ FIBONACCI_CACHE = last.cache_before

\* C15 witness: a negative streak with a valid base and zero count gives 0.
C15_Witness ==
    /\ IsBet
    /\ last.base_bet > 0
    /\ last.current_streak < 0
    /\ last.z_count_last_50 \in 0..50
    /\ last.value = 0
    /\ ~last.raised

\* C15, a zero count of 60 with a valid base and streak gives 0.
C15_WitnessZeroCount ==
    /\ IsBet
    /\ last.base_bet = 1000
    /\ last.current_streak = 5
    /\ last.z_count_last_50 = 60
    /\ last.value = 0

\* C15, a non-positive base gives 0.
C15_WitnessBase ==
    /\ IsBet
    /\ last.base_bet <= 0
    /\ last.current_streak >= 0
    /\ last.z_count_last_50 \in 0..49
    /\ last.value = 0

\* C15, get_fib_for_streak called with a negative streak raises.
C15_WitnessRaise ==
    /\ last.op = "get_fib_for_streak"
    /\ last.streak < 0
    /\ last.raised

\* Two consecutive calculate_bet calls with the same base > 0 and the same
\* zero count in 0..49, the second with the streak of the first plus d.
NeighbourBets(d) ==
    /\ IsBet
    /\ last'.op = "calculate_bet"
    /\ last.base_bet > 0
    /\ last'.base_bet = last.base_bet
    /\ last.z_count_last_50 \in 0..49
    /\ last'.z_count_last_50 = last.z_count_last_50
    /\ last.current_streak >= 0
    /\ last'.current_streak >= 0
    /\ last'.current_streak = last.current_streak + d

\* C16 as stated: for fixed base > 0 and zero count in 0..49 the stake of
\* streak k + 1 is never smaller than the stake of streak k, for every k >= 0.
C16_Monotone ==
    [][ /\ NeighbourBets(1) => last'.value >= last.value
        /\ NeighbourBets(-1) => last'.value <= last.value ]_vars

\* C16 as amended: the stake of streak k + 1 is never smaller than the stake
\* of streak k for every k >= 2; for k = 0 and k = 1 it is never larger
\* (fib stays 1 while the risk index grows).
C16_MonotoneFromTwo ==
    [][ /\ NeighbourBets(1) =>
            /\ last.current_streak >= 2 => last'.value >= last.value
            /\ last.current_streak <= 1 => last'.value <= last.value
        /\ NeighbourBets(-1) =>
            /\ last'.current_streak >= 2 => last'.value <= last.value
            /\ last'.current_streak <= 1 => last'.value >= last.value ]_vars

\* C16 witness: base 10.00 without zeros at streak 3 gives 16.67, above the
\* 10.00, 9.37 or 9.38, and 8.82 of the streaks 0, 1 and 2.
C16_Witness ==
    /\ IsBet
    /\ last.base_bet = 1000
    /\ last.z_count_last_50 = 0
    /\ last.current_streak = 3
    /\ last.value = 1667
    /\ {1, 2, 3} \subseteq DOMAIN FIBONACCI_CACHE

\* C16, the stake of streak 2 lies below the base stake, the stake of streak 0.
C16_WitnessDip ==
    /\ IsBet
    /\ last.base_bet = 1000
    /\ last.z_count_last_50 = 0
    /\ last.current_streak = 2
    /\ last.value = 882

IsFib == last.op = "get_fib_for_streak"

\* The values of the terms 0..12.
FibTable == <<1, 1, 1, 2, 3, 5, 8, 13, 21, 34, 55, 89, 144>>

\* C17: for every integer k >= 0, get_fib_for_streak(k) returns the k-th term
\* of the sequence fib(0) = fib(1) = fib(2) = 1, fib(k) = fib(k-1) + fib(k-2)
\* for k >= 3 (fib(12) = 144), and the sequence is non-decreasing in k.
C17_FibSequence ==
    (IsFib /\ last.streak >= 0) =>
        /\ ~last.raised
        /\ last.value = FibTerm(last.streak)
        /\ last.streak <= 12 => last.value = FibTable[last.streak + 1]
        /\ last.streak <= 2 => last.value = 1
        /\ last.streak >= 3 =>
            /\ {last.streak - 1, last.streak - 2} \subseteq DOMAIN FIBONACCI_CACHE
            /\ last.value = FIBONACCI_CACHE[last.streak - 1]
                                + FIBONACCI_CACHE[last.streak - 2]
        /\ \A j \in DOMAIN FIBONACCI_CACHE :
            j <= last.streak => FIBONACCI_CACHE[j] <= last.value

\* C17 witness: fib(12) is computed, not read from the cache, and is 144.
C17_Witness ==
    /\ IsFib
    /\ last.streak = 12
    /\ 12 \notin DOMAIN last.cache_before
    /\ last.value = 144

\* C17, the term 0 is computed after larger terms.
C17_WitnessZero ==
    /\ IsFib
    /\ last.streak = 0
    /\ 3 \in DOMAIN last.cache_before
    /\ 0 \notin DOMAIN last.cache_before
    /\ last.value = 1

\* C18: after any sequence of get_fib_for_streak calls every entry of
\* FIBONACCI_CACHE is the sequence value of its index; a call with a k already
\* cached returns the cached value; a call leaves every entry it found
\* unchanged and, when it returns, holds its own result under k.
C18_CacheHoldsSequence ==
    /\ \A j \in DOMAIN FIBONACCI_CACHE :
        /\ j >= 0
        /\ FIBONACCI_CACHE[j] = FibTerm(j)
    /\ IsFib =>
        /\ \A j \in DOMAIN last.cache_before :
            /\ j \in DOMAIN FIBONACCI_CACHE
            /\ FIBONACCI_CACHE[j] = last.cache_before[j]
        /\ last.streak \in DOMAIN last.cache_before =>
            /\ last.value = last.cache_before[last.streak]
            /\ FIBONACCI_CACHE = last.cache_before
        /\ ~last.raised =>
            /\ last.streak \in DOMAIN FIBONACCI_CACHE
            /\ FIBONACCI_CACHE[last.streak] = last.value
        /\ last.raised => FIBONACCI_CACHE = last.cache_before

\* C18 witness: fib(7) is asked again after fib(13) was computed, and answered
\* from the cache.
C18_Witness ==
    /\ IsFib
    /\ last.streak = 7
    /\ {7, 13} \subseteq DOMAIN last.cache_before
    /\ last.value = 13
    /\ FIBONACCI_CACHE = last.cache_before

\* C18, a call that finds one operand cached and computes the other:
\* fib(3) on a cache holding only fib(2).
C18_WitnessPartial ==
    /\ IsFib
    /\ last.streak = 3
    /\ DOMAIN last.cache_before = {2}
    /\ DOMAIN FIBONACCI_CACHE = {1, 2, 3}
    /\ last.value = 2

\* The record appended by the most recent round.
LastRecord == sim.bet_history[Len(sim.bet_history)]

\* C19 as stated: the record of every round, staked or not, stores as
\* streak_before_bet and z_count_before_bet the streak and the zero count the
\* monitor held immediately before the round's update_state.
C19_RecordHoldsBefore ==
    IsRound =>
        /\ LastRecord.streak_before_bet = last.pre.current_streak
        /\ LastRecord.z_count_before_bet = last.pre.z_count_last_50

\* C19, the divergence on a win: the monitor's streak before the round was
\* positive, the record of the winning round stores 0.
C19_WrongAfterWin ==
    /\ last.op = "staked_round"
    /\ sim.initial_bank > 0
    /\ sim.base_bet > 0
    /\ last.win_amount > 0
    /\ last.pre.current_streak > 0
    /\ LastRecord.streak_before_bet = 0

\* C19, the divergence on a zero-outcome loss: the record stores the streak
\* after the round.
C19_WrongAfterZeroLoss ==
    /\ last.op = "staked_round"
    /\ last.is_zero_result
    /\ LastRecord.streak_before_bet = last.pre.current_streak + 1
    /\ LastRecord.z_count_before_bet = last.pre.z_count_last_50

\* C19, the divergence in a zero-stake round: the record stores the streak
\* and the zero count after the round.
C19_WrongInZeroStakeRound ==
    /\ last.op = "zero_stake_round"
    /\ last.is_zero_result
    /\ LastRecord.streak_before_bet = last.pre.current_streak + 1
    /\ LastRecord.z_count_before_bet = last.pre.z_count_last_50 + 1

\* s is an initial part of t.
IsPrefix(s, t) == Len(s) <= Len(t) /\ SubSeq(t, 1, Len(s)) = s

\* C20: bet_history is append-only and ordered within a run: the round
\* indices of its records are strictly increasing in append order, and every
\* step of the run leaves the records already appended as they are, adding at
\* most one record at the end.
C20_AppendOnlyOrdered ==
    /\ [](\A i, j \in 1..Len(sim.bet_history) :
            i < j => sim.bet_history[i].spin < sim.bet_history[j].spin)
    /\ [][ /\ IsPrefix(sim.bet_history, sim'.bet_history)
           /\ Len(sim'.bet_history) <= Len(sim.bet_history) + 1
           /\ Len(sim'.bet_history) = Len(sim.bet_history) + 1 =>
                sim'.bet_history[Len(sim'.bet_history)].spin = spin_count' ]_vars

\* C20 witness: a run of zero-stake rounds has appended 15 records, the
\* fifteenth with round index 15, and has ended.
C20_Witness ==
    /\ pc = "done"
    /\ Len(sim.bet_history) = 15
    /\ sim.bet_history[1].spin = 1
    /\ sim.bet_history[15].spin = 15
    /\ sim.bet_history[15].bet_amount = 0

\* C20, a run of staked rounds that used its whole budget.
C20_WitnessStaked ==
    /\ terminal = "COMPLETED"
    /\ Len(sim.bet_history) = num_spins
    /\ num_spins > 2
    /\ \A i \in 1..Len(sim.bet_history) :
        /\ sim.bet_history[i].spin = i
        /\ sim.bet_history[i].bet_amount > 0

C21_WitnessNoBank ==
    /\ last.op = "zero_stake_round"
    /\ last.formula_bet > 0
    /\ last.bank_before = 0
    /\ rm.current_streak > 1

\* C22: for every outcome sequence and every round budget N >= 0 the run
\* terminates, having executed at most N rounds; a run that ends without
\* autostop and without bankruptcy has executed exactly N rounds and ends
\* COMPLETED with N records.
C22_TerminatesWithinBudget ==
    /\ <>(pc = "done")
    /\ [](/\ num_spins >= 0
          /\ spin_count <= num_spins
          /\ Len(sim.bet_history) <= num_spins
          /\ Len(sim.spin_history) <= num_spins
          /\ pc = "done" =>
              /\ terminal \in {"STOPPED_PRE", "STOPPED_POST", "BANKRUPT",
                               "COMPLETED"}
              /\ terminal = "COMPLETED" =>
                  /\ Len(sim.bet_history) = num_spins
                  /\ Len(sim.spin_history) = num_spins
                  /\ sim.session_stats.total_spins = num_spins
              /\ terminal # "COMPLETED" => Len(sim.bet_history) < num_spins
                                           \/ last.op = "staked_round")

\* C22 witness: a run of staked rounds with wins and losses used its whole
\* budget and ended COMPLETED.
C22_Witness ==
    /\ pc = "done"
    /\ terminal = "COMPLETED"
    /\ num_spins = MaxSpins
    /\ Len(sim.bet_history) = MaxSpins
    /\ sim.session_stats.wins > 0
    /\ sim.session_stats.losses > 0

\* C22, a budget of 0: no round, COMPLETED.
C22_WitnessNoRound ==
    /\ pc = "done"
    /\ terminal = "COMPLETED"
    /\ num_spins = 0
    /\ sim.bet_history = <<>>
    /\ sim.session_stats.total_spins = 0

----------------------------------------------------------------------------
(* simulator.py: run_simulation as a function of the run's state, the cache
   and the values the round draws.  Two runs are stepped side by side with it. *)

\* The state of one run: the simulator, its RiskMonitor and the loop's position.
Driver(s, m, p, i, n, t) ==
    [sim |-> s, rm |-> m, pc |-> p, spin_count |-> i, num_spins |-> n,
     terminal |-> t]

\* RouletteSimulator(initial_bank, base_bet, risk_monitor) before run_simulation.
NewDriver(c) ==
    Driver(RouletteSimulator(c.initial_bank, c.base_bet),
           RiskMonitor(c.rm_bank, c.base_bet), "loop", 0, c.num_spins, "RUNNING")

\* Lines 75 and 194-204: the loop's range is exhausted.
ExhaustedStep(d) ==
    [d EXCEPT !.sim = Summarize(d.sim), !.pc = "done", !.terminal = "COMPLETED"]

\* Lines 78-83 and 194-204: the pre-check stops the run.
PreCheckStep(d) ==
    LET stats == CountTriggers([d.sim.session_stats EXCEPT
                                   !.total_spins = d.spin_count + 1], d.rm)
    IN  [d EXCEPT !.sim = Summarize([d.sim EXCEPT !.session_stats = stats]),
                  !.spin_count = d.spin_count + 1,
                  !.pc = "done",
                  !.terminal = "STOPPED_PRE"]

\* Lines 95-112: a round without a stake.
ZeroStakeStep(d, actual_spin_result, tie) ==
    LET is_zero == get_number_properties(actual_spin_result).is_zero
        m_after == update_state(d.rm, 0, 0, is_zero, None, tie)
    IN  [d EXCEPT
            !.rm = m_after,
            !.sim = [d.sim EXCEPT
                !.session_stats = [@ EXCEPT !.total_spins = d.spin_count + 1],
                !.spin_history = Append(@, actual_spin_result),
                !.bet_history = Append(@, ZeroStakeRecord(d.sim, m_after,
                                    d.spin_count + 1, actual_spin_result))],
            !.spin_count = d.spin_count + 1]

\* Lines 114-192 (and 194-204 when the round leaves the loop): a staked round.
StakedStep(d, bet_amount, actual_spin_result, tie2) ==
    LET outcome == place_bet_and_determine_outcome(bet_amount, actual_spin_result)
        win_amount == outcome[1]
        is_zero == outcome[2]
        bank_before == d.sim.current_bank
        m_after == update_state(d.rm, bet_amount, win_amount, is_zero,
                                Some(bank_before), tie2)
        bank_after == m_after.current_bank
        stats1 == CountBuffer([d.sim.session_stats EXCEPT
                                  !.total_spins = d.spin_count + 1],
                              d.rm.zero_buffer, m_after.zero_buffer)
        stats2 == CountRound(stats1, d.sim.initial_bank, bank_after, m_after,
                             win_amount, is_zero)
        stopped == is_stop_suggested(m_after)
        bankrupt == ~stopped /\ bank_after <= 0
        stats3 == IF stopped THEN CountTriggers(stats2, m_after) ELSE stats2
        s1 == [d.sim EXCEPT
                !.current_bank = bank_after,
                !.spin_history = Append(@, actual_spin_result),
                !.bet_history = Append(@, StakedRecord(m_after, d.spin_count + 1,
                                    actual_spin_result, bet_amount, win_amount,
                                    is_zero, bank_before, bank_after)),
                !.session_stats = stats3]
    IN  [d EXCEPT
            !.rm = m_after,
            !.sim = IF stopped \/ bankrupt THEN Summarize(s1) ELSE s1,
            !.pc = IF stopped \/ bankrupt THEN "done" ELSE "loop",
            !.terminal = IF stopped THEN "STOPPED_POST"
                         ELSE IF bankrupt THEN "BANKRUPT" ELSE d.terminal,
            !.spin_count = d.spin_count + 1]

\* One pass through the loop of run_simulation (or its end) from state d with
\* FIBONACCI_CACHE = cache, when _spin_wheel returns actual_spin_result and
\* the two roundings of the round fall as tie and tie2 at an exact half:
\* the state and the cache after it.
RunStep(d, cache, actual_spin_result, tie, tie2) ==
    IF d.pc # "loop" THEN [d |-> d, cache |-> cache]
    ELSE IF d.spin_count >= d.num_spins
    THEN [d |-> ExhaustedStep(d), cache |-> cache]
    ELSE IF is_stop_suggested(d.rm)
    THEN [d |-> PreCheckStep(d), cache |-> cache]
    ELSE LET bet_amount ==
                 ClampStake(calculate_bet(cache, d.sim.base_bet,
                                d.rm.current_streak, d.rm.z_count_last_50, tie),
                            d.sim.current_bank)
             cache_after == CacheAfterBet(cache, d.sim.base_bet,
                                d.rm.current_streak, d.rm.z_count_last_50)
         IN  IF bet_amount <= 0
             THEN [d |-> ZeroStakeStep(d, actual_spin_result, tie),
                   cache |-> cache_after]
             ELSE [d |-> StakedStep(d, bet_amount, actual_spin_result, tie2),
                   cache |-> cache_after]

\* RunStep is the loop of Spec: every step of a run is RunStep for the outcome
\* and the roundings of that step.
RunStep_IsTheLoop ==
    [][\E tie \in BOOLEAN, tie2 \in BOOLEAN, r \in wheel :
        \E x \in {RunStep(Driver(sim, rm, pc, spin_count, num_spins, terminal),
                          FIBONACCI_CACHE, r, tie, tie2)} :
            /\ x.d = Driver(sim', rm', pc', spin_count', num_spins', terminal')
            /\ x.cache = FIBONACCI_CACHE']_vars


----------------------------------------------------------------------------
(* Two runs of run_simulation on the same configuration and the same drawn
   outcomes: one in a process whose FIBONACCI_CACHE earlier calls have filled,
   the other (alone) in a fresh process. *)

\* The largest streak an earlier call asked get_fib_for_streak for.
MaxPrior == 5

\* FIBONACCI_CACHE as earlier calls of get_fib_for_streak left it.
PriorCaches ==
    {<<>>} \cup {get_fib_for_streak(<<>>, n).cache : n \in {2, MaxPrior}}

DetConfigs ==
    {Config(100000, 1000, 100000, n, FullWheel) : n \in {2, MaxSpins}}
    \cup {Config(1000, 1000, 1000, MaxSpins, FullWheel)}
    \cup {Config(100000, 0, 100000, MaxSpins, FullWheel)}

InitDet ==
    /\ \E c \in DetConfigs, prior \in PriorCaches :
        /\ sim = RouletteSimulator(c.initial_bank, c.base_bet)
        /\ rm = RiskMonitor(c.rm_bank, c.base_bet)
        /\ num_spins = c.num_spins
        /\ wheel = c.wheel
        /\ FIBONACCI_CACHE = prior
        /\ alone = [d |-> NewDriver(c), cache |-> <<>>]
        /\ last = [op |-> "none", prior |-> prior]
    /\ pc = "loop"
    /\ spin_count = 0
    /\ terminal = "RUNNING"
    /\ env = "det"
    /\ calls = 0
    /\ zero_flags = <<>>
    /\ since_win = 0
    /\ user_sessions = <<>>
    /\ drivers = <<>>

\* One pass of the loop in both runs: _spin_wheel returns the same value in
\* both, and round() is a function of its argument.
RunBoth ==
    /\ pc = "loop"
    /\ \E tie \in BOOLEAN, tie2 \in BOOLEAN, actual_spin_result \in wheel :
       \E x \in {RunStep(Driver(sim, rm, pc, spin_count, num_spins, terminal),
                         FIBONACCI_CACHE, actual_spin_result, tie, tie2)} :
       \E y \in {RunStep(alone.d, alone.cache, actual_spin_result, tie, tie2)} :
        /\ sim' = x.d.sim
        /\ rm' = x.d.rm
        /\ pc' = x.d.pc
        /\ spin_count' = x.d.spin_count
        /\ terminal' = x.d.terminal
        /\ FIBONACCI_CACHE' = x.cache
        /\ alone' = y
        /\ last' = [op |-> "run_both", prior |-> last.prior]
    /\ UNCHANGED <<num_spins, wheel, env, calls, zero_flags, since_win>>
    /\ UNCHANGED <<user_sessions, drivers>>

NextDet == RunBoth

SpecDet == InitDet /\ [][NextDet]_vars

\* C23: two runs with the same initial bank, base stake, round budget and
\* drawn outcomes have the same round records, the same risk state and the
\* same summary at every point, whatever earlier calls left in FIBONACCI_CACHE.
C23_SameRunWhateverTheCache ==
    env = "det" =>
        alone.d = Driver(sim, rm, pc, spin_count, num_spins, terminal)

\* A finished run that started on a filled cache, reached a streak of 3 and
\* left a cache different from the one of the run that started empty.
C23_Witness ==
    /\ env = "det"
    /\ pc = "done"
    /\ last.op = "run_both"
    /\ MaxPrior \in DOMAIN last.prior
    /\ sim.session_stats.max_streak_loss >= 3
    /\ Len(sim.bet_history) >= 3
    /\ alone.cache # FIBONACCI_CACHE
    /\ alone.d.sim.bet_history = sim.bet_history

\* The same for a run that reads the filled cache where the other run fills
\* its own: the stake of the fourth round after three losses in a row.
C23_WitnessHitAndMiss ==
    /\ env = "det"
    /\ last.op = "run_both"
    /\ MaxPrior \in DOMAIN last.prior
    /\ rm.current_streak = 4
    /\ 3 \in DOMAIN alone.cache
    /\ ~(MaxPrior \in DOMAIN alone.cache)


----------------------------------------------------------------------------
(* The end of a run and its stop_triggers *)

StopKeys == {"loss_streak_limit", "zero_count_limit", "drawdown_limit"}

\* The stop_triggers counters are 1 for the flags set in the monitor and 0
\* for the others.
TriggersCountFlags ==
    \A k \in StopKeys :
        sim.session_stats.stop_triggers[k] =
            IF rm.stop_conditions_met[k] THEN 1 ELSE 0

NoTrigger == \A k \in StopKeys : sim.session_stats.stop_triggers[k] = 0

NoFlag == \A k \in StopKeys : ~rm.stop_conditions_met[k]

\* C24 as stated: a run that ends by autostop has counted exactly the flags
\* of the final risk state; a run that ends by bankruptcy or by exhaustion of
\* the budget has no flag set in the final risk state and no counter above 0.
C24_EveryEndTagged ==
    (env = "run" /\ pc = "done") =>
        /\ terminal \in {"STOPPED_PRE", "STOPPED_POST"} => TriggersCountFlags
        /\ terminal \in {"BANKRUPT", "COMPLETED"} => NoFlag /\ NoTrigger

\* C24, amended: the counters stay 0 while the run goes on; a run that ends
\* by autostop has a flag set and has counted exactly the flags set; a run
\* that ends by bankruptcy has no flag set and no counter above 0; a run that
\* ends by exhaustion of the budget has no counter above 0, and has a flag
\* set only when its last round placed no stake.
C24_EndTaggedUnlessLastRoundUnstaked ==
    env = "run" =>
        /\ pc = "loop" => NoTrigger
        /\ (pc = "done" /\ terminal \in {"STOPPED_PRE", "STOPPED_POST"}) =>
                TriggersCountFlags /\ ~NoFlag
        /\ (pc = "done" /\ terminal = "BANKRUPT") => NoFlag /\ NoTrigger
        /\ (pc = "done" /\ terminal = "COMPLETED") =>
                /\ NoTrigger
                /\ ~NoFlag =>
                    /\ num_spins > 0
                    /\ Len(sim.bet_history) = num_spins
                    /\ LastRecord.bet_amount = 0

\* A run stopped by the post-check with two flags set and counted.
C24_Witness ==
    /\ env = "run"
    /\ pc = "done"
    /\ terminal = "STOPPED_POST"
    /\ Cardinality({k \in StopKeys : rm.stop_conditions_met[k]}) = 2
    /\ TriggersCountFlags

\* A run stopped by the pre-check after a round without stake set a flag.
C24_WitnessPreCheck ==
    /\ env = "run"
    /\ pc = "done"
    /\ terminal = "STOPPED_PRE"
    /\ TriggersCountFlags
    /\ sim.session_stats.stop_triggers["zero_count_limit"] = 1

\* A run ended by bankruptcy.
C24_WitnessBankrupt ==
    /\ env = "run"
    /\ pc = "done"
    /\ terminal = "BANKRUPT"
    /\ NoFlag

\* A run whose last budgeted round placed no stake and set a flag: it ends
\* by exhaustion of the budget with the flag set and not counted.
C24_WitnessUncounted ==
    /\ env = "run"
    /\ pc = "done"
    /\ terminal = "COMPLETED"
    /\ rm.stop_conditions_met["zero_count_limit"]
    /\ NoTrigger


----------------------------------------------------------------------------
(* A bank that is not positive *)

C25_WitnessGoesOn ==
    /\ env = "run"
    /\ last.op = "zero_stake_round"
    /\ sim.current_bank <= 0
    /\ Len(sim.bet_history) >= 3
    /\ pc = "loop"


----------------------------------------------------------------------------
(* The bet rule of the simulator and the streak analytics, called directly *)

\* The longest history handed to calculate_non_event_streak (the sample
\* history of the module's tests apart).
MaxHistory == 4

\* The stakes handed to _place_bet_and_determine_outcome, in cents.
BetInputs == {-1000, 0, 1, 1000, 2550}

\* The spins of a history: zero, a red number, a black number and a number
\* that is not on the wheel.
HistoryNumbers == {0, 1, 2, 37}

\* The history of the module's tests.
sample_history ==
    <<10, 0, 25, 1, 14, 36, 10, 10, 2, 19, 0, 5, 23, 33, 1, 1, 10, 28, 17, 16>>

Histories ==
    UNION {[1..k -> HistoryNumbers] : k \in 0..MaxHistory} \cup {sample_history}

EventCheckers == {"is_red", "is_zero"}

InitLib ==
    /\ FIBONACCI_CACHE = <<>>
    /\ rm = RiskMonitor(0, 0)
    /\ sim = RouletteSimulator(0, 0)
    /\ pc = "lib"
    /\ spin_count = 0
    /\ num_spins = 0
    /\ wheel = {}
    /\ terminal = "RUNNING"
    /\ env = "lib"
    /\ calls = 0
    /\ zero_flags = <<>>
    /\ since_win = 0
    /\ last = NoCall
    /\ user_sessions = <<>>
    /\ drivers = <<>>
    /\ alone = <<>>

\* One _place_bet_and_determine_outcome call on a value of _spin_wheel
\* (a number of EUROPEAN_ROULETTE_NUMBERS, 0 to 36).
PlaceBet ==
    /\ pc = "lib"
    /\ \E bet_amount \in BetInputs, spin_result \in ALL_NUMBERS :
       \E outcome \in {place_bet_and_determine_outcome(bet_amount, spin_result)} :
        last' = [op |-> "place_bet", bet_amount |-> bet_amount,
                 spin_result |-> spin_result,
                 win_amount |-> outcome[1], is_zero_result |-> outcome[2]]
    /\ UNCHANGED <<rm, FIBONACCI_CACHE, sim, pc, spin_count, num_spins, wheel,
                   terminal, env, calls, zero_flags, since_win>>
    /\ UNCHANGED <<user_sessions, drivers, alone>>

\* One calculate_non_event_streak call.
NonEventStreak ==
    /\ pc = "lib"
    /\ \E history \in Histories, event \in EventCheckers :
       \E r \in {calculate_non_event_streak(history, event)} :
        last' = [op |-> "calculate_non_event_streak", history |-> history,
                 event |-> event, value |-> r.value, raised |-> r.raised]
    /\ UNCHANGED <<rm, FIBONACCI_CACHE, sim, pc, spin_count, num_spins, wheel,
                   terminal, env, calls, zero_flags, since_win>>
    /\ UNCHANGED <<user_sessions, drivers, alone>>

NextLib ==
    \/ PlaceBet
    \/ NonEventStreak

SpecLib == InitLib /\ [][NextLib]_vars

\* C26: with a stake > 0 the net win is the stake iff the drawn number is one
\* of the 18 red numbers and 0 for each of the 18 black numbers and for zero;
\* is_zero_result is true iff the number is 0; every number of the wheel is
\* zero, red or black.
C26_RedEvenMoney ==
    /\ Cardinality(RED_NUMBERS) = 18
    /\ Cardinality(BLACK_NUMBERS) = 18
    /\ RED_NUMBERS \cap BLACK_NUMBERS = {}
    /\ RED_NUMBERS \cup BLACK_NUMBERS = 1..36
    /\ (last.op = "place_bet" /\ last.bet_amount > 0) =>
        /\ last.win_amount = last.bet_amount <=> last.spin_result \in RED_NUMBERS
        /\ last.spin_result \in BLACK_NUMBERS => last.win_amount = 0
        /\ last.spin_result = 0 => last.win_amount = 0
        /\ last.is_zero_result <=> last.spin_result = 0
        /\ last.win_amount \in {0, last.bet_amount}

\* A stake of 25.50 on red 36 wins 25.50.
C26_Witness ==
    /\ last.op = "place_bet"
    /\ last.bet_amount = 2550
    /\ last.spin_result = 36
    /\ last.win_amount = 2550
    /\ ~last.is_zero_result

\* A stake on black 35 wins nothing.
C26_WitnessBlack ==
    /\ last.op = "place_bet"
    /\ last.bet_amount = 1000
    /\ last.spin_result = 35
    /\ last.win_amount = 0
    /\ ~last.is_zero_result

\* A stake on zero wins nothing and is a zero result.
C26_WitnessZero ==
    /\ last.op = "place_bet"
    /\ last.bet_amount = 1
    /\ last.spin_result = 0
    /\ last.win_amount = 0
    /\ last.is_zero_result


----------------------------------------------------------------------------
(* The largest loss streak of a run *)

\* The loss streak after round i of the run, from its records: 0 after a win,
\* one more than after the round before otherwise.
RECURSIVE StreakAfterRound(_)
StreakAfterRound(i) ==
    IF i = 0 THEN 0
    ELSE IF sim.bet_history[i].win_amount_from_bet > 0 THEN 0
    ELSE StreakAfterRound(i - 1) + 1

\* In a run whose monitor starts with streak 0 the monitor's streak is the
\* streak of the records.
StreakOfRecords ==
    env = "run" => rm.current_streak = StreakAfterRound(Len(sim.bet_history))

\* The largest value the streak took after a round of the run; 0 without rounds.
MaxStreakSeen ==
    LET seen == {StreakAfterRound(i) : i \in 0..Len(sim.bet_history)}
    IN  CHOOSE x \in seen : \A y \in seen : y <= x

\* C27: at the end of a run max_streak_loss is the largest value the
\* monitor's loss streak took after a round, rounds without stake included.
C27_MaxStreakOfRun ==
    (env = "run" /\ pc = "done") =>
        sim.session_stats.max_streak_loss = MaxStreakSeen

\* A run of three rounds without stake, each a loss: the streak is 3 and
\* max_streak_loss is 0.
C27_StreakMissed ==
    /\ env = "run"
    /\ pc = "done"
    /\ rm.current_streak >= 3
    /\ MaxStreakSeen = rm.current_streak
    /\ sim.session_stats.max_streak_loss = 0

\* In the runs whose rounds all place a stake the summary has the largest streak.
C27_StakedRunsCounted ==
    (env = "run" /\ pc = "done"
        /\ \A i \in 1..Len(sim.bet_history) : sim.bet_history[i].bet_amount > 0) =>
        sim.session_stats.max_streak_loss = MaxStreakSeen


----------------------------------------------------------------------------
(* Two drivers in one process: each has its own RouletteSimulator and its own
   RiskMonitor, both call calculate_bet and so share FIBONACCI_CACHE.  Their
   rounds interleave in any order.  alone[x] is driver x run by itself, with
   a cache of its own, on the outcomes driver x draws. *)

\* Round budget of the driver whose wheel produces red and black.
TwoSpins == 4

ColourWheel == {1, 2}

\* Driver A runs three rounds on the full wheel, driver B runs TwoSpins rounds
\* without zero and with another base stake.
TwoConfigs ==
    [A |-> Config(100000, 1000, 100000, 3, FullWheel),
     B |-> Config(100000, 2500, 100000, TwoSpins, ColourWheel)]

InitTwo ==
    /\ drivers = [x \in DOMAIN TwoConfigs |-> NewDriver(TwoConfigs[x])]
    /\ alone = [x \in DOMAIN TwoConfigs |->
                    [d |-> NewDriver(TwoConfigs[x]), cache |-> <<>>]]
    /\ FIBONACCI_CACHE = <<>>
    /\ wheel = FullWheel
    /\ rm = RiskMonitor(0, 0)
    /\ sim = RouletteSimulator(0, 0)
    /\ pc = "two"
    /\ spin_count = 0
    /\ num_spins = 0
    /\ terminal = "RUNNING"
    /\ env = "two"
    /\ calls = 0
    /\ zero_flags = <<>>
    /\ since_win = 0
    /\ last = NoCall
    /\ user_sessions = <<>>

\* Mutant: the two simulators were handed the same RiskMonitor object.
DriverRound_SharedMonitor(x) ==
    /\ env = "two"
    /\ drivers[x].pc = "loop"
    /\ \E tie \in BOOLEAN, tie2 \in BOOLEAN,
          actual_spin_result \in TwoConfigs[x].wheel :
       \E r \in {RunStep(drivers[x], FIBONACCI_CACHE, actual_spin_result,
                         tie, tie2)} :
       \E a \in {RunStep(alone[x].d, alone[x].cache, actual_spin_result,
                         tie, tie2)} :
        /\ drivers' = [y \in DOMAIN drivers |->
                          IF y = x THEN r.d
                          ELSE [drivers[y] EXCEPT !.rm = r.d.rm]]
        /\ FIBONACCI_CACHE' = r.cache
        /\ alone' = [alone EXCEPT ![x] = a]
        /\ last' = [op |-> "driver_round", driver |-> x]
    /\ UNCHANGED <<rm, sim, pc, spin_count, num_spins, wheel, terminal, env,
                   calls, zero_flags, since_win, user_sessions>>

\* One pass of driver x through the loop of run_simulation, on the shared
\* cache; the same pass in alone[x], with the same outcome.
DriverRound(x) ==
    /\ env = "two"
    /\ drivers[x].pc = "loop"
    /\ \E tie \in BOOLEAN, tie2 \in BOOLEAN,
          actual_spin_result \in TwoConfigs[x].wheel :
       \E r \in {RunStep(drivers[x], FIBONACCI_CACHE, actual_spin_result,
                         tie, tie2)} :
       \E a \in {RunStep(alone[x].d, alone[x].cache, actual_spin_result,
                         tie, tie2)} :
        /\ drivers' = [drivers EXCEPT ![x] = r.d]
        /\ FIBONACCI_CACHE' = r.cache
        /\ alone' = [alone EXCEPT ![x] = a]
        /\ last' = [op |-> "driver_round", driver |-> x]
    /\ UNCHANGED <<rm, sim, pc, spin_count, num_spins, wheel, terminal, env,
                   calls, zero_flags, since_win, user_sessions>>

RoundOfA == DriverRound("A")
RoundOfB == DriverRound("B")

NextTwo ==
    \/ RoundOfA
    \/ RoundOfB

SpecTwo == InitTwo /\ [][NextTwo]_vars

\* C28: under every interleaving of the rounds of two drivers with their own
\* monitors, each driver's state (records, bank, streak, zero window, reserve,
\* summary) is the state it has when run alone on the same outcomes; the
\* shared cache holds, for every streak a driver alone has cached, the same
\* value.
C28_DriversIsolated ==
    env = "two" =>
        \A x \in DOMAIN drivers :
            /\ drivers[x] = alone[x].d
            /\ \A k \in DOMAIN alone[x].cache :
                /\ k \in DOMAIN FIBONACCI_CACHE
                /\ FIBONACCI_CACHE[k] = alone[x].cache[k]

\* Both runs have ended at their budgets, one with a win in its records, the
\* other after a streak of three losses.
C28_Witness ==
    /\ env = "two"
    /\ \A x \in DOMAIN drivers :
        /\ drivers[x].pc = "done"
        /\ drivers[x].terminal = "COMPLETED"
        /\ Len(drivers[x].sim.bet_history) = drivers[x].num_spins
    /\ drivers["A"].sim.session_stats.wins > 0
    /\ drivers["B"].sim.session_stats.max_streak_loss >= 3
    /\ drivers["A"].sim.bet_history # drivers["B"].sim.bet_history

\* Driver A has just run a round on a cache that holds a term only driver B
\* has asked for, and both runs go on.
C28_WitnessSharedCache ==
    /\ env = "two"
    /\ last.op = "driver_round"
    /\ last.driver = "A"
    /\ 3 \in DOMAIN FIBONACCI_CACHE
    /\ 3 \notin DOMAIN alone["A"].cache
    /\ Len(drivers["A"].sim.bet_history) >= 2
    /\ drivers["A"].pc = "loop"
    /\ drivers["B"].pc = "loop"


----------------------------------------------------------------------------
(* calculate_non_event_streak *)

IsStreakCall == last.op = "calculate_non_event_streak"

\* The event of the last call holds for spin number n.
EventAt(n) ==
    IF last.event = "is_red" THEN n \in RED_NUMBERS ELSE n = 0

\* The position of the last spin of the history for which the event holds;
\* 0 when there is none.
LastEventIndex ==
    LET at == {i \in 1..Len(last.history) : EventAt(last.history[i])} \cup {0}
    IN  CHOOSE i \in at : \A j \in at : j <= i

\* C29: for a history of roulette numbers calculate_non_event_streak returns
\* the number of spins after the last spin for which the event holds: 0 when
\* the last spin satisfies the event, the length of the history when no spin
\* does (the empty history included).  The call raises only when a number
\* that is not on the wheel comes after the last event spin.
C29_TrailingNonEvents ==
    IsStreakCall =>
        /\ last.raised <=>
                \E j \in 1..Len(last.history) :
                    j > LastEventIndex /\ last.history[j] \notin 0..36
        /\ ~last.raised =>
            /\ last.value = Len(last.history) - LastEventIndex
            /\ (last.history # <<>> /\ EventAt(last.history[Len(last.history)]))
                    => last.value = 0
            /\ (\A i \in 1..Len(last.history) : ~EventAt(last.history[i]))
                    => last.value = Len(last.history)

\* The two results of the module's tests: 9 spins since the last zero of the
\* sample history.
C29_Witness ==
    /\ IsStreakCall
    /\ last.history = sample_history
    /\ last.event = "is_zero"
    /\ ~last.raised
    /\ last.value = 9

\* The sample history ends with a red number.
C29_WitnessLastIsEvent ==
    /\ IsStreakCall
    /\ last.history = sample_history
    /\ last.event = "is_red"
    /\ last.value = 0

\* A history without a red number, and the empty history.
C29_WitnessNoEvent ==
    /\ IsStreakCall
    /\ last.history = <<2, 0, 2>>
    /\ last.event = "is_red"
    /\ last.value = 3

C29_WitnessEmpty ==
    /\ IsStreakCall
    /\ last.history = <<>>
    /\ ~last.raised
    /\ last.value = 0

\* An event in the middle of the history.
C29_WitnessMiddle ==
    /\ IsStreakCall
    /\ last.history = <<2, 1, 2, 0>>
    /\ last.event = "is_red"
    /\ last.value = 2


----------------------------------------------------------------------------
(* bot.py: the command handlers and user_sessions *)

\* Number of chat users that send commands.
MaxUsers == 3

Users == 1..MaxUsers

\* The session start_command creates (amounts in cents).
NewSession ==
    [initial_bank |-> 100000, current_bank |-> 100000, base_bet |-> 1000,
     streak |-> 0, z_count_last_50 |-> 0, zero_buffer |-> 0,
     spins_history |-> <<>>, is_active |-> TRUE]

\* "user_id in user_sessions and user_sessions[user_id]['is_active']"
SessionActive(sessions, user_id) ==
    user_id \in DOMAIN sessions /\ sessions[user_id].is_active

\* What a handler leaves in last: the command, its user, the reply sent, the
\* sessions before it and the command handled before it.
Handled(op, user_id, reply) ==
    last' = [op |-> op, user_id |-> user_id, reply |-> reply,
             before |-> user_sessions,
             prev_op |-> last.op,
             prev_user |-> IF last.op = "none" THEN 0 ELSE last.user_id]

InitBot ==
    /\ user_sessions = <<>>
    /\ last = NoCall
    /\ FIBONACCI_CACHE = <<>>
    /\ rm = RiskMonitor(0, 0)
    /\ sim = RouletteSimulator(0, 0)
    /\ pc = "bot"
    /\ spin_count = 0
    /\ num_spins = 0
    /\ wheel = {}
    /\ terminal = "RUNNING"
    /\ env = "bot"
    /\ calls = 0
    /\ zero_flags = <<>>
    /\ since_win = 0
    /\ drivers = <<>>
    /\ alone = <<>>

\* start_command: a session is created only for a user that has none; the
\* reply greets with the session's initial bank and base bet.
StartCommand ==
    /\ env = "bot"
    /\ \E user_id \in Users :
        /\ user_sessions' = IF user_id \notin DOMAIN user_sessions
                            THEN user_sessions @@ (user_id :> NewSession)
                            ELSE user_sessions
        /\ Handled("start", user_id, "greeting")
    /\ UNCHANGED <<rm, FIBONACCI_CACHE, sim, pc, spin_count, num_spins, wheel,
                   terminal, env, calls, zero_flags, since_win, drivers, alone>>

\* stats_command: the statistics of an active session, or "no active session".
StatsCommand ==
    /\ env = "bot"
    /\ \E user_id \in Users :
        Handled("stats", user_id,
                IF SessionActive(user_sessions, user_id) THEN "statistics"
                ELSE "no active session, use /start")
    /\ UNCHANGED user_sessions
    /\ UNCHANGED <<rm, FIBONACCI_CACHE, sim, pc, spin_count, num_spins, wheel,
                   terminal, env, calls, zero_flags, since_win, drivers, alone>>

\* stop_command: an active session is marked inactive.
StopCommand ==
    /\ env = "bot"
    /\ \E user_id \in Users :
        IF SessionActive(user_sessions, user_id)
        THEN /\ user_sessions' = [user_sessions EXCEPT
                                    ![user_id].is_active = FALSE]
             /\ Handled("stop", user_id, "session ended, /start for a new one")
        ELSE /\ UNCHANGED user_sessions
             /\ Handled("stop", user_id, "no active session")
    /\ UNCHANGED <<rm, FIBONACCI_CACHE, sim, pc, spin_count, num_spins, wheel,
                   terminal, env, calls, zero_flags, since_win, drivers, alone>>

\* unknown_command: a reply, no change of state.
UnknownCommand ==
    /\ env = "bot"
    /\ \E user_id \in Users : Handled("unknown", user_id, "unknown command")
    /\ UNCHANGED user_sessions
    /\ UNCHANGED <<rm, FIBONACCI_CACHE, sim, pc, spin_count, num_spins, wheel,
                   terminal, env, calls, zero_flags, since_win, drivers, alone>>

NextBot ==
    \/ StartCommand
    \/ StatsCommand
    \/ StopCommand
    \/ UnknownCommand

SpecBot == InitBot /\ [][NextBot]_vars

\* C30: a /start of a user whose session /stop has ended leaves the user
\* with an active session that has the initial bank, streak 0 and an empty
\* history; a /stats of the same user right after a /start is answered with
\* statistics.
C30_StartAfterStopBeginsAnew ==
    /\ (last.op = "start" /\ last.user_id \in DOMAIN last.before
            /\ ~last.before[last.user_id].is_active) =>
        /\ user_sessions[last.user_id].is_active
        /\ user_sessions[last.user_id].current_bank = NewSession.initial_bank
        /\ user_sessions[last.user_id].streak = 0
        /\ user_sessions[last.user_id].spins_history = <<>>
    /\ (last.op = "stats" /\ last.prev_op = "start"
            /\ last.prev_user = last.user_id) =>
        last.reply = "statistics"

\* /stop, /start, /stats of one user: the /start has left the ended session
\* as it was.
C30_StartLeavesSessionEnded ==
    /\ last.op = "start"
    /\ last.prev_op = "stop"
    /\ last.prev_user = last.user_id
    /\ last.user_id \in DOMAIN last.before
    /\ ~last.before[last.user_id].is_active
    /\ ~user_sessions[last.user_id].is_active
    /\ last.reply = "greeting"

\* The /stats that follows is answered "no active session, use /start".
C30_StatsAfterRestartRefused ==
    /\ last.op = "stats"
    /\ last.prev_op = "start"
    /\ last.prev_user = last.user_id
    /\ last.reply = "no active session, use /start"


----------------------------------------------------------------------------
(* The arguments the driver hands to the stake formula *)

\* C31: in a run started with a fresh RiskMonitor every round computes its
\* stake from a loss streak in 0..14 and a zero count in 0..3 (last.pre is the
\* monitor the round read them from), so the buffer factor and the risk index
\* of the formula are positive in every call the driver makes.
C31_FormulaArguments ==
    (env = "run" /\ IsRound) =>
        /\ last.pre.current_streak \in 0..(MAX_CONSECUTIVE_LOSSES_LIMIT - 1)
        /\ last.pre.z_count_last_50 \in 0..(MAX_ZEROS_IN_50_SPINS_LIMIT - 1)
        /\ 50 - last.pre.z_count_last_50 > 0
        /\ 15 + last.pre.current_streak > 0
        /\ ~is_stop_suggested(last.pre)

\* A stake computed at streak 14, the last one before the limit.
C31_Witness ==
    /\ env = "run"
    /\ last.op = "staked_round"
    /\ last.pre.current_streak = MAX_CONSECUTIVE_LOSSES_LIMIT - 1
    /\ last.formula_bet > 0
    /\ rm.stop_conditions_met.loss_streak_limit

\* A stake computed at zero count 3; the round brings the fourth zero.
C31_WitnessZeroCount ==
    /\ env = "run"
    /\ last.op = "staked_round"
    /\ last.pre.z_count_last_50 = MAX_ZEROS_IN_50_SPINS_LIMIT - 1
    /\ rm.stop_conditions_met.zero_count_limit

\* The pre-check stops the run at streak 15 before a stake is computed.
C31_WitnessPreCheck ==
    /\ env = "run"
    /\ last.op = "pre_check"
    /\ last.pre.current_streak = MAX_CONSECUTIVE_LOSSES_LIMIT


----------------------------------------------------------------------------
(* Runs with a valid configuration *)

\* The configuration of the run is valid: an initial bank and a base stake of
\* at least one cent, and a monitor created with the same initial bank.
ValidConfiguration ==
    /\ env = "run"
    /\ sim.initial_bank >= 1
    /\ sim.base_bet >= 1
    /\ rm.initial_bank = sim.initial_bank

\* C32: in a run with a valid configuration every round places a stake > 0;
\* no round takes the zero-stake branch, the pre-check never stops the run,
\* and a run that ends with a flag set has ended at a post-check.
C32_ValidRunsAlwaysStake ==
    ValidConfiguration =>
        /\ last.op \notin {"zero_stake_round", "pre_check"}
        /\ IsRound => last.bet_amount > 0 /\ last.formula_bet > 0
        /\ terminal # "STOPPED_PRE"
        /\ \A i \in 1..Len(sim.bet_history) : sim.bet_history[i].bet_amount > 0
        /\ (pc = "done" /\ ~NoFlag) => terminal = "STOPPED_POST"
        /\ (pc = "loop" /\ spin_count > 0) => sim.current_bank >= 1

\* A base stake of one cent at streak 2 after two zeros: the formula's 0.0085
\* is rounded to a stake of one cent.
C32_Witness ==
    /\ ValidConfiguration
    /\ sim.base_bet = 1
    /\ last.op = "staked_round"
    /\ last.pre.current_streak = 2
    /\ last.pre.z_count_last_50 = 2
    /\ last.bet_amount = 1

\* A bank of one cent: the stake is the whole bank, and losing it ends the
\* run at the post-check.
C32_WitnessWholeBank ==
    /\ ValidConfiguration
    /\ sim.initial_bank = 1
    /\ last.op = "staked_round"
    /\ last.bet_amount = 1
    /\ last.formula_bet > 1
    /\ sim.current_bank = 0
    /\ terminal = "STOPPED_POST"

\* A valid run stopped by the zero count at a post-check.
C32_WitnessZeroCount ==
    /\ ValidConfiguration
    /\ pc = "done"
    /\ terminal = "STOPPED_POST"
    /\ rm.stop_conditions_met.zero_count_limit
    /\ ~rm.stop_conditions_met.drawdown_limit


----------------------------------------------------------------------------
(* The bankruptcy branch *)

\* C33 as stated: in a run whose simulator starts with a bank > 0 the run
\* never ends as BANKRUPT; a staked round that leaves the bank <= 0 has set
\* the drawdown flag and ended the run at the post-check, which counted
\* drawdown_limit.
C33_NoBankruptcyForPositiveBank ==
    (env = "run" /\ sim.initial_bank > 0) =>
        /\ terminal # "BANKRUPT"
        /\ (last.op = "staked_round" /\ sim.current_bank <= 0) =>
            /\ rm.stop_conditions_met.drawdown_limit
            /\ terminal = "STOPPED_POST"
            /\ sim.session_stats.stop_triggers.drawdown_limit = 1

\* C33, amended: the same for a run whose RiskMonitor was created with an
\* initial bank > 0; a run ends as BANKRUPT only when the monitor's initial
\* bank is <= 0 while the simulator's is > 0, with the bank at exactly 0 and
\* no flag set.
C33_NoBankruptcyForPositiveMonitorBank ==
    env = "run" =>
        /\ rm.initial_bank > 0 =>
            /\ terminal # "BANKRUPT"
            /\ (last.op = "staked_round" /\ sim.current_bank <= 0) =>
                /\ rm.stop_conditions_met.drawdown_limit
                /\ terminal = "STOPPED_POST"
                /\ sim.session_stats.stop_triggers.drawdown_limit = 1
        /\ terminal = "BANKRUPT" =>
            /\ rm.initial_bank <= 0
            /\ sim.initial_bank > 0
            /\ sim.current_bank = 0
            /\ NoFlag

\* A run with the same bank 10.00 in simulator and monitor loses the whole
\* bank in its first round and is stopped by the drawdown flag.
C33_Witness ==
    /\ env = "run"
    /\ rm.initial_bank = sim.initial_bank
    /\ sim.initial_bank > 0
    /\ last.op = "staked_round"
    /\ sim.current_bank = 0
    /\ terminal = "STOPPED_POST"
    /\ sim.session_stats.stop_triggers.drawdown_limit = 1

\* A simulator with bank 10.00 and a monitor created with bank 0: the round
\* that loses the whole bank ends the run as BANKRUPT.
C33_WitnessBankrupt ==
    /\ env = "run"
    /\ sim.initial_bank > 0
    /\ rm.initial_bank = 0
    /\ last.op = "staked_round"
    /\ sim.current_bank = 0
    /\ terminal = "BANKRUPT"
    /\ NoTrigger


----------------------------------------------------------------------------
(* The two banks *)

C34_WitnessZeroStake ==
    /\ env = "run"
    /\ rm.initial_bank = sim.initial_bank
    /\ last.op = "zero_stake_round"
    /\ Len(sim.bet_history) >= 2
    /\ sim.current_bank = rm.current_bank
    /\ sim.current_bank = sim.initial_bank


----------------------------------------------------------------------------
(* The chain of banks in the round records *)

\* C35: the first record's bank_before_bet is the initial bank; every later
\* record's bank_before_bet is the bank_after_spin of the record before it;
\* the simulator's bank is the last record's bank_after_spin (the initial
\* bank without records); at the end of the run final_bank is that bank and
\* profit_loss is final_bank - initial_bank.
C35_RecordsChain ==
    env = "run" =>
        LET h == sim.bet_history
        IN  /\ h # <<>> => h[1].bank_before_bet = sim.initial_bank
            /\ \A i \in 2..Len(h) :
                    h[i].bank_before_bet = h[i - 1].bank_after_spin
            /\ sim.current_bank = IF h = <<>> THEN sim.initial_bank
                                  ELSE h[Len(h)].bank_after_spin
            /\ pc = "done" =>
                /\ sim.session_stats.final_bank =
                        IF h = <<>> THEN sim.initial_bank
                        ELSE h[Len(h)].bank_after_spin
                /\ sim.session_stats.profit_loss =
                        sim.session_stats.final_bank - sim.initial_bank

\* A finished run of at least three records with a win, a loss and a final
\* bank that differs from the initial bank.
C35_Witness ==
    /\ env = "run"
    /\ pc = "done"
    /\ Len(sim.bet_history) >= 3
    /\ sim.session_stats.wins > 0
    /\ sim.session_stats.losses > 0
    /\ sim.session_stats.profit_loss # 0
    /\ sim.bet_history[2].bank_before_bet # sim.initial_bank
    /\ sim.session_stats.final_bank = LastRecord.bank_after_spin

\* A finished run without records.
C35_WitnessNoRecord ==
    /\ env = "run"
    /\ pc = "done"
    /\ sim.bet_history = <<>>
    /\ sim.session_stats.final_bank = sim.initial_bank
    /\ sim.session_stats.profit_loss = 0

\* A run whose monitor was created with another bank than the simulator.
C35_WitnessOtherMonitorBank ==
    /\ env = "run"
    /\ pc = "done"
    /\ rm.initial_bank # sim.initial_bank
    /\ Len(sim.bet_history) >= 2
    /\ sim.bet_history[1].bank_before_bet = sim.initial_bank


----------------------------------------------------------------------------
(* The summary's total_spins *)

\* C36: at the end of every run total_spins is the number of round records,
\* which is the number of outcomes drawn.
C36_TotalSpinsCountsRecords ==
    (env = "run" /\ pc = "done") =>
        /\ Len(sim.bet_history) = Len(sim.spin_history)
        /\ sim.session_stats.total_spins = Len(sim.bet_history)

\* A run stopped by the pre-check: total_spins counts the round that was not
\* played.
C36_PreCheckCountsUnplayedRound ==
    /\ env = "run"
    /\ pc = "done"
    /\ terminal = "STOPPED_PRE"
    /\ Len(sim.bet_history) = Len(sim.spin_history)
    /\ sim.session_stats.total_spins = Len(sim.bet_history) + 1

\* Every other end of a run has total_spins equal to the number of records,
\* and records and drawn outcomes are always as many.
C36_OtherEndsCountRecords ==
    env = "run" =>
        /\ Len(sim.bet_history) = Len(sim.spin_history)
        /\ (pc = "done" /\ terminal # "STOPPED_PRE") =>
                sim.session_stats.total_spins = Len(sim.bet_history)
        /\ (pc = "done" /\ terminal = "STOPPED_PRE") =>
                sim.session_stats.total_spins = Len(sim.bet_history) + 1


----------------------------------------------------------------------------
(* The reserve and its two counters *)

\* C37: in a run started with a monitor whose reserve is 0 the reserve is,
\* before the first round and after every round, zero_buffer_accumulated less
\* zero_buffer_spent; both counters only grow, and a round without stake
\* leaves the reserve and the counters as they were.
C37_ReserveIsAccumulatedLessSpent ==
    /\ env = "run" =>
        /\ sim.session_stats.zero_buffer_accumulated
             - sim.session_stats.zero_buffer_spent = rm.zero_buffer
        /\ sim.session_stats.zero_buffer_accumulated >= 0
        /\ sim.session_stats.zero_buffer_spent >= 0
        /\ last.op = "zero_stake_round" => rm.zero_buffer = last.pre.zero_buffer
        /\ last.op = "staked_round" =>
            /\ last.win_amount > 0 => rm.zero_buffer >= last.pre.zero_buffer
            /\ last.win_amount = 0 => rm.zero_buffer <= last.pre.zero_buffer

\* A round has refunded a zero-outcome loss from a reserve that wins had
\* filled: both counters are positive.
C37_Witness ==
    /\ env = "run"
    /\ last.op = "staked_round"
    /\ last.is_zero_result
    /\ rm.zero_buffer < last.pre.zero_buffer
    /\ sim.session_stats.zero_buffer_accumulated > 0
    /\ sim.session_stats.zero_buffer_spent > 0

\* The reserve is spent to the last cent.
C37_WitnessEmptied ==
    /\ env = "run"
    /\ rm.zero_buffer = 0
    /\ sim.session_stats.zero_buffer_spent > 0
    /\ sim.session_stats.zero_buffer_accumulated
         = sim.session_stats.zero_buffer_spent

====
